---- MODULE Spec2Model ----
(***************************************************************************)
(* The extraction and ingestion pipeline of the code-ownership analysis:   *)
(* the orchestrator (main.py), the producer processes (extract/*.py), the   *)
(* shared queue and the database writer (database/database.py).             *)
(*                                                                          *)
(* Processes are OS processes; each action below is one step of one         *)
(* process.  A document on the queue is modelled by its label and a record  *)
(* whose fields `by' and `n' identify the producer that queued it and the   *)
(* position of the put among that producer's puts.                          *)
(***************************************************************************)
EXTENDS Integers, Sequences, FiniteSets, TLC

\* ------------------------------------------------------------------ bounds
\* Log groups in the configuration of the per-account query loop.
MaxLogGroups == 2
\* Rows the log service holds per log group in the query loop.
MaxRows == 3
\* Largest row time, in ticks.
MaxTick == 3
\* Queries one account may start before the service refuses further ones.
MaxQueries == 3
\* Rows of the Jira export after the header.
MaxStories == 1
\* Projects of the parent group created inside the time window.
MaxProjects == 1
\* Stand-in for the service's result cap, cloudwatch.py:11 (10000 rows).
QUERY_LIMIT == 2
\* Consecutive LIMIT_REACHED answers the log service gives to one log group.
MaxRefusals == 2
\* Pages of a listing of the GitLab API, and items per page.
MaxPages == 3
MaxItems == 1

\* Participants per merge request.
MaxParticipants == 2

\* Commits per population of the ownership calculation, and lines changed per
\* commit.
MaxCommits == 3
MaxLoc == 2
\* Frames of a traceback in the message of an error row.
MaxFrames == 2
\* Ticks per second: the log service's timestamps are finer than the epoch
\* seconds of a query window (models.py:66 truncates).
TicksPerSecond == 2

\* ------------------------------------------------------------ definitions
None == "None"

\* models.py:16-19
CLOUDWATCH == "cloudwatch"
GITLAB == "gitlab"
JIRA == "jira"
Sources == {CLOUDWATCH, GITLAB, JIRA}

\* models.py:294-298
SOURCE_MAP ==
    [s \in Sources |->
        CASE s = CLOUDWATCH -> {"account", "loggroup", "errorlog"}
          [] s = GITLAB -> {"user", "commit", "merge", "project", "group"}
          [] s = JIRA -> {"story"}]

\* models.py:300-310, the keys of TYPE_MAP
Labels == {"account", "loggroup", "errorlog", "user", "commit", "merge",
           "project", "group", "story"}

\* cloudwatch.py:18-22
IN_PROGRESS == "IN_PROGRESS"
THROTTLED == "THROTTLED"
LIMIT_REACHED == "LIMIT_REACHED"
NOT_FOUND == "NOT_FOUND"

\* Process names, main.py:67,74,81,89
CloudWatchProc(a) == <<"CloudWatch", a>>
GitLabProc == <<"GitLab", 0>>
JiraProc == <<"Jira", 0>>
DatabaseProc == <<"Database", 0>>
MainProc == <<"main", 0>>
Stale == <<"stale", 0>>
NoProc == <<"none", 0>>

\* The AWS accounts a configuration may name, config.py:65-67.
AccountIds == {1, 2}
CloudWatchProcs == {CloudWatchProc(a) : a \in AccountIds}
Procs == CloudWatchProcs \cup {GitLabProc, JiraProc}

\* The source a producer belongs to, main.py:63-83.
SourceOf(p) ==
    CASE p = GitLabProc -> GITLAB
      [] p = JiraProc -> JIRA
      [] OTHER -> CLOUDWATCH

\* A document: `by' and `n' identify the put and `label' is the label it was
\* queued under; the rest is its content.
Doc(p, k, label, lg, ts, author) ==
    [by |-> p, n |-> k, label |-> label, lg |-> lg, ts |-> ts, author |-> author]
Msg(label, doc) == [label |-> label, doc |-> doc]
\* main.py:99
Sentinel == [label |-> None, doc |-> None]
\* database.py:49, the writer's test of a message
IsSentinel(m) == m.label = None

VARIABLES
    args,            \* the sources s with `args.s or args.all', main.py:49
    config,          \* the configuration: accounts, log groups, time window
    service,         \* the rows the log service holds: log group -> rows
    mainPc,          \* the orchestrator's position in main.py
    mainIdx,         \* index of the orchestrator's current loop over producers
    producers,       \* main.py:59, the list of producer processes
    procState,       \* per process: "none", "created", "running", "exited", "failed"
    consumer,        \* the Database process: "none", "running", "exited"
    database_queue,  \* main.py:60
    tables,          \* the document store: label -> documents
    store_writer,    \* the process and circumstances of the last store mutation
    nput,            \* per producer: number of its puts so far
    ninserted,       \* per producer: number of its documents inserted so far
    sentinels,       \* number of sentinels put so far
    pc,              \* per producer: position in its extract method
    idx,             \* per producer: index of its current loop
    log_groups,      \* cloudwatch.py:95, per account: pending log groups
    queries,         \* cloudwatch.py:97, per account: in-flight queries
    results,         \* cloudwatch.py:116, per account: the result being handled
    started,         \* per account: the queries the service has accepted
    refusals,        \* per account, while the process runs: LIMIT_REACHED answers
                     \* in a row to the pending head
    dropped,         \* per account: the log groups answered NOT_FOUND
    gitlab,          \* what the GitLab API serves: commits, blame pages, users
    blame_cache,     \* gitlab.py:141, per process: the cache of __fetch_blame
    blamed,          \* per account: the last call of GitLab.blame and its outcome
    fetch_params,    \* gitlab.py:51, the "page" entry of the default
                     \* additional_params of __fetch_all (0: no entry)
    fetched,         \* the last call of __fetch_all and what it yielded
    user_cache,      \* gitlab.py:70, the cache of __add_user: the ids of the
                     \* users queued so far
    jira_input,      \* jira.py:23, the rows of the Jira export
    calculated       \* the last call of calculate_ownership and its outcome

vars == <<args, config, service, mainPc, mainIdx, producers, procState, consumer,
          database_queue, tables, store_writer, nput, ninserted, sentinels,
          pc, idx, log_groups, queries, results, started, refusals, dropped,
          gitlab, blame_cache, blamed, fetch_params, fetched, user_cache,
          jira_input, calculated>>

mainVars == <<mainPc, mainIdx, producers>>
cwVars == <<log_groups, queries, results, started, refusals, dropped>>
constVars == <<args, config, service, gitlab, jira_input>>
gitlabVars == <<blame_cache, blamed, fetch_params, fetched, user_cache>>
analyzeVars == <<calculated>>

\* ------------------------------------------------------- the document store
\* database.py:25-27, Database.insert
insert(tbls, label, document) ==
    [tbls EXCEPT ![label] = Append(@, document)]

\* A clear that truncates every table.
clear_all(tbls, source) == [l \in Labels |-> <<>>]

\* database.py:37-40, Database.clear
clear(tbls, source) ==
    [l \in Labels |-> IF l \in SOURCE_MAP[source] THEN <<>> ELSE tbls[l]]

\* True once main.py:85-92 has started a producer or the writer.
RunStarted ==
    \/ consumer # "none"
    \/ \E p \in Procs : procState[p] \in {"running", "exited", "failed"}

\* The store mutation `op' is being performed by process `by'.
Mutation(by, op) == [by |-> by, op |-> op, started |-> RunStarted]

\* Process.is_alive()
is_alive(p) == procState[p] = "running"

\* Variant of put: the document is put at the front of the queue.
put_front(p, label, lg, ts, author) ==
    /\ database_queue' =
           <<Msg(label, Doc(p, nput[p] + 1, label, lg, ts, author))>> \o database_queue
    /\ nput' = [nput EXCEPT ![p] = @ + 1]

\* queue.put of a document by producer p
put(p, label, lg, ts, author) ==
    /\ database_queue' =
           Append(database_queue, Msg(label, Doc(p, nput[p] + 1, label, lg, ts, author)))
    /\ nput' = [nput EXCEPT ![p] = @ + 1]

\* queue.put of `document' by producer p
put_document(p, label, document) ==
    /\ database_queue' = Append(database_queue,
           Msg(label, document @@ [by |-> p, n |-> nput[p] + 1, label |-> label]))
    /\ nput' = [nput EXCEPT ![p] = @ + 1]

\* Variant of raise: the exception leaves the process hanging instead of ending it.
raise_hang(p) ==
    /\ pc' = [pc EXCEPT ![p] = "failed"]
    /\ UNCHANGED procState

\* An unhandled exception ends the process that raised it.
raise(p) ==
    /\ procState' = [procState EXCEPT ![p] = "failed"]
    /\ pc' = [pc EXCEPT ![p] = "failed"]

\* The target of the process returns.
return(p) ==
    /\ procState' = [procState EXCEPT ![p] = "exited"]
    /\ pc' = [pc EXCEPT ![p] = "done"]

\* Variant of Requested: every source counts as requested.
Requested_all(source) == TRUE

\* args.<source> or args.all, main.py:63,71,78
Requested(source) == source \in args

\* ------------------------------------------------------------ orchestrator
\* main.py:58
MainBegin ==
    /\ mainPc = "begin"
    /\ mainPc' = IF args # {} THEN "cloudwatch" ELSE "done"
    /\ UNCHANGED <<mainIdx, producers, procState, consumer, database_queue, tables,
                   store_writer, nput, ninserted, sentinels, pc, idx>>
    /\ UNCHANGED <<cwVars, constVars, gitlabVars, analyzeVars>>

\* producers.append(Process(...)) for each process of `new'
AppendProcesses(new) ==
    /\ producers' = producers \o new
    /\ procState' = [p \in Procs |->
           IF \E i \in 1 .. Len(new) : new[i] = p THEN "created" ELSE procState[p]]

\* Variant of MainSource: the tables of the source are not cleared.
MainSource_noclear(at, source, new, next) ==
    /\ mainPc = at
    /\ mainPc' = next
    /\ IF Requested(source)
          THEN /\ AppendProcesses(new)
               /\ UNCHANGED <<tables, store_writer>>
          ELSE UNCHANGED <<tables, store_writer, producers, procState>>
    /\ UNCHANGED <<mainIdx, consumer, database_queue, nput, ninserted, sentinels, pc, idx>>
    /\ UNCHANGED <<cwVars, constVars, gitlabVars, analyzeVars>>

\* Variant of MainSource: each process is started as soon as it is created.
MainSource_start(at, source, new, next) ==
    /\ mainPc = at
    /\ mainPc' = next
    /\ IF Requested(source)
          THEN /\ tables' = clear(tables, source)
               /\ store_writer' = Mutation(MainProc, "truncate")
               /\ producers' = producers \o new
               /\ procState' = [p \in Procs |->
                      IF \E i \in 1 .. Len(new) : new[i] = p THEN "running"
                                                          ELSE procState[p]]
          ELSE UNCHANGED <<tables, store_writer, producers, procState>>
    /\ UNCHANGED <<mainIdx, consumer, database_queue, nput, ninserted, sentinels, pc, idx>>
    /\ UNCHANGED <<cwVars, constVars, gitlabVars, analyzeVars>>

\* One `if args.<source> or args.all:' block of main.py:63-83.
MainSource(at, source, new, next) ==
    /\ mainPc = at
    /\ mainPc' = next
    /\ IF Requested(source)
          THEN /\ tables' = clear(tables, source)
               /\ store_writer' = Mutation(MainProc, "truncate")
               /\ AppendProcesses(new)
          ELSE UNCHANGED <<tables, store_writer, producers, procState>>
    /\ UNCHANGED <<mainIdx, consumer, database_queue, nput, ninserted, sentinels, pc, idx>>
    /\ UNCHANGED <<cwVars, constVars, gitlabVars, analyzeVars>>

\* main.py:63-69
MainCloudwatch ==
    MainSource("cloudwatch", CLOUDWATCH,
               [i \in 1 .. Len(config.accounts) |-> CloudWatchProc(config.accounts[i])],
               "gitlab")

\* main.py:71-76
MainGitlab == MainSource("gitlab", GITLAB, <<GitLabProc>>, "jira")

\* main.py:78-83
MainJira == MainSource("jira", JIRA, <<JiraProc>>, "start")

\* main.py:85-86, one iteration
MainStart ==
    /\ mainPc = "start"
    /\ IF mainIdx <= Len(producers)
          THEN /\ procState' = [procState EXCEPT ![producers[mainIdx]] = "running"]
               /\ mainIdx' = mainIdx + 1
               /\ UNCHANGED mainPc
          ELSE /\ mainPc' = "consumer"
               /\ mainIdx' = 1
               /\ UNCHANGED procState
    /\ UNCHANGED <<producers, consumer, database_queue, tables, store_writer, nput,
                   ninserted, sentinels, pc, idx>>
    /\ UNCHANGED <<cwVars, constVars, gitlabVars, analyzeVars>>

\* Variant of MainStartConsumer: the orchestrator does not wait for the producers.
MainStartConsumer_nojoin ==
    /\ mainPc = "consumer"
    /\ consumer' = "running"
    /\ mainPc' = "sentinel"
    /\ UNCHANGED <<mainIdx, producers, procState, database_queue, tables, store_writer,
                   nput, ninserted, sentinels, pc, idx>>
    /\ UNCHANGED <<cwVars, constVars, gitlabVars, analyzeVars>>

\* main.py:88-92
MainStartConsumer ==
    /\ mainPc = "consumer"
    /\ consumer' = "running"
    /\ mainPc' = "visualize"
    /\ UNCHANGED <<mainIdx, producers, procState, database_queue, tables, store_writer,
                   nput, ninserted, sentinels, pc, idx>>
    /\ UNCHANGED <<cwVars, constVars, gitlabVars, analyzeVars>>

\* concurrency.py:7-28: the loop ends when no producer is alive; a pass that
\* finds one alive changes nothing.
visualize ==
    /\ mainPc = "visualize"
    /\ ~\E i \in 1 .. Len(producers) : is_alive(producers[i])
    /\ mainPc' = "join"
    /\ UNCHANGED <<mainIdx, producers, procState, consumer, database_queue, tables,
                   store_writer, nput, ninserted, sentinels, pc, idx>>
    /\ UNCHANGED <<cwVars, constVars, gitlabVars, analyzeVars>>

\* main.py:96-97, one iteration: join blocks until the process has ended.
MainJoin ==
    /\ mainPc = "join"
    /\ IF mainIdx <= Len(producers)
          THEN /\ ~is_alive(producers[mainIdx])
               /\ mainIdx' = mainIdx + 1
               /\ UNCHANGED mainPc
          ELSE /\ mainPc' = "sentinel"
               /\ mainIdx' = 1
    /\ UNCHANGED <<producers, procState, consumer, database_queue, tables, store_writer,
                   nput, ninserted, sentinels, pc, idx>>
    /\ UNCHANGED <<cwVars, constVars, gitlabVars, analyzeVars>>

\* Variant of MainSentinel: no sentinel is put.
MainSentinel_skip ==
    /\ mainPc = "sentinel"
    /\ mainPc' = "join_consumer"
    /\ UNCHANGED <<mainIdx, producers, procState, consumer, database_queue, tables,
                   store_writer, nput, ninserted, sentinels, pc, idx>>
    /\ UNCHANGED <<cwVars, constVars, gitlabVars, analyzeVars>>

\* main.py:99
MainSentinel ==
    /\ mainPc = "sentinel"
    /\ database_queue' = Append(database_queue, Sentinel)
    /\ sentinels' = sentinels + 1
    /\ mainPc' = "join_consumer"
    /\ UNCHANGED <<mainIdx, producers, procState, consumer, tables, store_writer, nput,
                   ninserted, pc, idx>>
    /\ UNCHANGED <<cwVars, constVars, gitlabVars, analyzeVars>>

\* main.py:100
MainJoinConsumer ==
    /\ mainPc = "join_consumer"
    /\ consumer = "exited"
    /\ mainPc' = "done"
    /\ UNCHANGED <<mainIdx, producers, procState, consumer, database_queue, tables,
                   store_writer, nput, ninserted, sentinels, pc, idx>>
    /\ UNCHANGED <<cwVars, constVars, gitlabVars, analyzeVars>>

\* ------------------------------------------------------------------ writer
\* Variant of listen: the writer returns when it finds the queue empty.
listen_nowait ==
    /\ consumer = "running"
    /\ IF database_queue = <<>>
          THEN /\ consumer' = "exited"
               /\ UNCHANGED <<database_queue, tables, store_writer, ninserted>>
          ELSE LET label == Head(database_queue).label
                   document == Head(database_queue).doc
               IN  /\ database_queue' = Tail(database_queue)
                   /\ IF label # None
                         THEN /\ tables' = insert(tables, label, document)
                              /\ store_writer' = Mutation(DatabaseProc, "insert")
                              /\ ninserted' = [ninserted EXCEPT ![document.by] = @ + 1]
                              /\ UNCHANGED consumer
                         ELSE /\ consumer' = "exited"
                              /\ UNCHANGED <<tables, store_writer, ninserted>>
    /\ UNCHANGED <<mainVars, procState, nput, sentinels, pc, idx>>
    /\ UNCHANGED <<cwVars, constVars, gitlabVars, analyzeVars>>

\* database.py:42-52, Database.__listen: one pass of the loop.  queue.get blocks
\* while the queue is empty.
listen ==
    /\ consumer = "running"
    /\ database_queue # <<>>
    /\ LET label == Head(database_queue).label
           document == Head(database_queue).doc
       IN  /\ database_queue' = Tail(database_queue)
           /\ IF label # None
                 THEN /\ tables' = insert(tables, label, document)
                      /\ store_writer' = Mutation(DatabaseProc, "insert")
                      /\ ninserted' = [ninserted EXCEPT ![document.by] = @ + 1]
                      /\ UNCHANGED consumer
                 ELSE /\ consumer' = "exited"
                      /\ UNCHANGED <<tables, store_writer, ninserted>>
    /\ UNCHANGED <<mainVars, procState, nput, sentinels, pc, idx>>
    /\ UNCHANGED <<cwVars, constVars, gitlabVars, analyzeVars>>

\* --------------------------------------------------------------------- text
\* A local variable of a function: `value' is computed once and body(value) is
\* the rest of the function.
Bind(value, body(_)) == CHOOSE result \in {body(v) : v \in {value}} : TRUE

\* A str is the sequence of its characters.
Digits == <<"0", "1", "2", "3", "4", "5", "6", "7", "8", "9">>
IsDigit(c) == \E d \in DOMAIN Digits : Digits[d] = c
DigitValue(c) == (CHOOSE d \in DOMAIN Digits : Digits[d] = c) - 1

\* The number that a str of digits denotes.
decimal(s) ==
    Bind(s, LAMBDA str :
    LET value[i \in 0 .. Len(str)] ==
            IF i = 0 THEN 0 ELSE value[i - 1] * 10 + DigitValue(str[i])
    IN  value[Len(str)])

\* str.strip() of surrounding blanks
str_strip(s) ==
    Bind(s, LAMBDA str :
    Bind({i \in DOMAIN str : str[i] # " "}, LAMBDA inner :
        IF inner = {} THEN <<>>
        ELSE SubSeq(str, CHOOSE i \in inner : \A j \in inner : i <= j,
                         CHOOSE i \in inner : \A j \in inner : i >= j)))

\* int(s) of a str: blanks around an optional minus sign and digits, ValueError
\* otherwise.
int(s) ==
    Bind(str_strip(s), LAMBDA t :
    Bind(IF t # <<>> /\ t[1] = "-" THEN Tail(t) ELSE t, LAMBDA u :
        IF u # <<>> /\ \A i \in DOMAIN u : IsDigit(u[i])
           THEN [raised |-> None, value |-> IF u = t THEN decimal(u) ELSE 0 - decimal(u)]
           ELSE [raised |-> "ValueError", value |-> 0]))

\* The end of the longest run of digits of s that begins at position i.
digits_end(s, i) ==
    CHOOSE j \in i .. Len(s) :
        /\ \A k \in i .. j : IsDigit(s[k])
        /\ j = Len(s) \/ ~IsDigit(s[j + 1])

\* models.py:11 and 283, SPRINT_RE.search(sprint).group(): the first run of
\* digits of the str; search returns None for a str without a digit, and
\* None.group() raises AttributeError.
SPRINT_RE_search_group(sprint) ==
    Bind(sprint, LAMBDA str :
    Bind({i \in DOMAIN str : IsDigit(str[i])}, LAMBDA at :
        IF at = {}
           THEN [raised |-> "AttributeError", group |-> <<>>]
           ELSE Bind(CHOOSE a \in at : \A b \in at : a <= b, LAMBDA i :
                    [raised |-> None, group |-> SubSeq(str, i, digits_end(str, i))])))

\* models.py:272
Story_LABEL == "story"

\* models.py:274-284, Story.transform_input: the id is int() of column 0, the
\* sprints are the numbers of the first digit runs of the non-empty columns
\* after it.  An empty row raises IndexError, a column 0 that int() rejects
\* ValueError, a non-empty column without a digit AttributeError.
Story_transform_input(data) ==
    Bind(data, LAMBDA row :
        IF row = <<>> THEN [raised |-> "IndexError", doc |-> None]
        ELSE
    Bind(int(row[1]), LAMBDA id :
        IF id.raised # None THEN [raised |-> id.raised, doc |-> None]
        ELSE
    Bind(SelectSeq(SubSeq(row, 2, Len(row)), LAMBDA sprint : sprint # <<>>), LAMBDA sprints :
    Bind([i \in DOMAIN sprints |-> SPRINT_RE_search_group(sprints[i])], LAMBDA found :
        IF \E i \in DOMAIN found : found[i].raised # None
           THEN [raised |-> "AttributeError", doc |-> None]
           ELSE [raised |-> None,
                 doc |-> [id |-> id.value,
                          sprints |-> [i \in DOMAIN found |-> int(found[i].group).value]]]))))

\* ---------------------------------------------------------- Jira producer
\* Variant of JiraExtract: the producer inserts each story into the store itself.
JiraExtract_direct ==
    LET p == JiraProc
    IN  /\ is_alive(p)
        /\ \/ /\ pc[p] = "open"
              /\ pc' = [pc EXCEPT ![p] = "rows"]
              /\ UNCHANGED <<procState, idx, nput, tables, store_writer>>
           \/ /\ pc[p] = "rows"
              /\ idx[p] < Len(jira_input)
              /\ idx' = [idx EXCEPT ![p] = @ + 1]
              /\ IF idx[p] = 0
                    THEN UNCHANGED <<nput, tables, store_writer>>
                    ELSE /\ tables' = insert(tables, "story",
                                Doc(p, nput[p] + 1, "story", 0, 0, None))
                         /\ store_writer' = Mutation(p, "insert")
                         /\ nput' = [nput EXCEPT ![p] = @ + 1]
              /\ UNCHANGED <<pc, procState>>
           \/ /\ pc[p] = "rows"
              /\ idx[p] >= Len(jira_input)
              /\ return(p)
              /\ UNCHANGED <<idx, nput, tables, store_writer>>
        /\ UNCHANGED <<mainVars, consumer, database_queue, ninserted, sentinels>>
        /\ UNCHANGED <<cwVars, constVars, gitlabVars, analyzeVars>>

\* Variant of JiraRow: the header is handled like every other row.
JiraRow_header(p, index, row) ==
    \E story \in {Story_transform_input(row)} :
        IF story.raised # None
           THEN /\ raise(p)
                /\ UNCHANGED <<database_queue, nput>>
           ELSE /\ put_document(p, Story_LABEL, story.doc)
                /\ UNCHANGED <<pc, procState>>

\* jira.py:26-29, one pass of the loop over the rows: row 0 is skipped, every
\* other row is transformed and queued; an exception of Story.transform_input
\* ends the process.
JiraRow(p, index, row) ==
    IF index = 0
       THEN UNCHANGED <<database_queue, nput, pc, procState>>
       ELSE \E story \in {Story_transform_input(row)} :
                IF story.raised # None
                   THEN /\ raise(p)
                        /\ UNCHANGED <<database_queue, nput>>
                   ELSE /\ put_document(p, Story_LABEL, story.doc)
                        /\ UNCHANGED <<pc, procState>>

\* jira.py:21-29, Jira.__extract: open() fails, or the loop handles one row.
JiraExtract ==
    LET p == JiraProc
    IN  /\ is_alive(p)
        /\ \/ /\ pc[p] = "open"
              /\ \/ pc' = [pc EXCEPT ![p] = "rows"] /\ UNCHANGED procState
                 \/ raise(p)
              /\ UNCHANGED <<idx, database_queue, nput>>
           \/ /\ pc[p] = "rows"
              /\ idx[p] < Len(jira_input)
              /\ idx' = [idx EXCEPT ![p] = @ + 1]
              /\ JiraRow(p, idx[p], jira_input[idx[p] + 1])
           \/ /\ pc[p] = "rows"
              /\ idx[p] >= Len(jira_input)
              /\ return(p)
              /\ UNCHANGED <<idx, database_queue, nput>>
        /\ UNCHANGED <<mainVars, consumer, tables, store_writer, ninserted, sentinels>>
        /\ UNCHANGED <<cwVars, constVars, gitlabVars, analyzeVars>>

\* -------------------------------------------------------- GitLab producer
\* gitlab.py:159-164, GitLab.__extract, for a parent group without descendant
\* groups whose projects hold no commits and no merges: the group is queued
\* (gitlab.py:78-81), then each project (gitlab.py:92-97).  Any request may
\* fail with GitLabError, which __extract does not catch.
GitLabExtract ==
    LET p == GitLabProc
    IN  /\ is_alive(p)
        /\ \/ /\ pc[p] = "groups"
              /\ \/ /\ put(p, "group", 0, 0, None)
                    /\ pc' = [pc EXCEPT ![p] = "projects"]
                    /\ UNCHANGED procState
                 \/ /\ raise(p)
                    /\ UNCHANGED <<database_queue, nput>>
              /\ UNCHANGED idx
           \/ /\ pc[p] = "projects"
              /\ idx[p] < config.projects
              /\ \/ /\ put(p, "project", 0, 0, None)
                    /\ idx' = [idx EXCEPT ![p] = @ + 1]
                    /\ UNCHANGED <<pc, procState>>
                 \/ /\ raise(p)
                    /\ UNCHANGED <<database_queue, nput, idx>>
           \/ /\ pc[p] = "projects"
              /\ idx[p] >= config.projects
              /\ return(p)
              /\ UNCHANGED <<idx, database_queue, nput>>
        /\ UNCHANGED <<mainVars, consumer, tables, store_writer, ninserted, sentinels>>
        /\ UNCHANGED <<cwVars, constVars, gitlabVars, analyzeVars>>

\* ------------------------------------------------------ the GitLab client
\* A dict in insertion order: a sequence of [key, val] entries.
DictHas(d, k) == \E i \in 1 .. Len(d) : d[i].key = k

\* d[k] = v: the value of an existing key is replaced, a new key comes last.
DictSet(d, k, v) ==
    IF DictHas(d, k)
       THEN [i \in 1 .. Len(d) |-> IF d[i].key = k THEN [key |-> k, val |-> v] ELSE d[i]]
       ELSE Append(d, [key |-> k, val |-> v])

\* d.pop(k)
DictPop(d, k) ==
    LET Keep(e) == e.key # k IN SelectSeq(d, Keep)

\* d[k]
DictGet(d, k) == (CHOOSE e \in {d[i] : i \in 1 .. Len(d)} : e.key = k).val

\* The resources of the GitLab API the model walks: the descendant groups of
\* the parent group (gitlab.py:85), its projects (gitlab.py:92) and the blame of a file at a commit
\* (gitlab.py:146-148).
GroupsUri == <<"descendant_groups", 0, 0>>
ProjectsUri == <<"projects", 0, 0>>
BlameUri(file, ref) == <<"blame", file, ref>>

\* gitlab.py:30-45, __fetch and __get: the response to a request for `uri' with
\* the page parameter `page' (0: the parameters hold no page, and GitLab serves
\* the first page).  A page past the last one is an empty list without a cursor.
Response(uri, page) ==
    LET n == IF page = 0 THEN 1 ELSE page
    IN  IF n \in 1 .. Len(gitlab.pages[uri])
           THEN gitlab.pages[uri][n]
           ELSE [ok |-> TRUE, items |-> <<>>, next |-> 0]

\* Variant of fetch_all: the following page is the one after the page asked for.
RECURSIVE fetch_all_count(_, _)
fetch_all_count(uri, page) ==
    LET response == Response(uri, page)
    IN  IF ~response.ok
           THEN [items |-> <<>>, requests |-> <<page>>, raised |-> TRUE, page |-> page]
           ELSE IF response.next # 0
                   THEN LET n == IF page = 0 THEN 2 ELSE page + 1
                            rest == fetch_all_count(uri, n)
                        IN  [items |-> response.items \o rest.items,
                             requests |-> <<page>> \o rest.requests,
                             raised |-> rest.raised,
                             page |-> rest.page]
                   ELSE [items |-> response.items, requests |-> <<page>>,
                         raised |-> FALSE, page |-> page]

\* gitlab.py:51-63, __fetch_all, run until it returns or raises, for the dict
\* additional_params whose "page" entry is `page': the items it yields, the
\* pages it asks for, whether __get raises GitLabError (gitlab.py:38), and the
\* "page" entry it leaves in additional_params (gitlab.py:61).
RECURSIVE fetch_all(_, _)
fetch_all(uri, page) ==
    LET response == Response(uri, page)
    IN  IF ~response.ok
           THEN [items |-> <<>>, requests |-> <<page>>, raised |-> TRUE, page |-> page]
           ELSE IF response.next # 0
                   THEN LET rest == fetch_all(uri, response.next)
                        IN  [items |-> response.items \o rest.items,
                             requests |-> <<page>> \o rest.requests,
                             raised |-> rest.raised,
                             page |-> rest.page]
                   ELSE [items |-> response.items, requests |-> <<page>>,
                         raised |-> FALSE, page |-> page]

\* Variant of hash_id: the id is left as it is.
hash_id_raw(id) == id

\* models.py:117-120, User.hash_id: the digests of the user ids of the model
hash_id(id) ==
    CASE id = "alice" -> "shake_128(alice)"
      [] id = "bob" -> "shake_128(bob)"
      [] id = "carol" -> "shake_128(carol)"
      [] OTHER -> "shake_128(other)"

\* models.py:94-97, timestamp_to_zulustr: the second as an ISO string
timestamp_to_zulustr(timestamp) == <<timestamp, "Z">>

\* line.strip() of a blamed line, gitlab.py:174
strip(line) == line.text

\* models.py:99-105, get_error_info: the (file, statement) pairs of the frames
\* of a message, the last frame first.
get_error_info(message) ==
    [i \in 1 .. Len(message) |-> message[Len(message) + 1 - i]]

\* Variant of get_user_identifiers: the mail address is the user's identifier.
get_user_identifiers_mail(mail) == [raised |-> None, id |-> mail]

\* gitlab.py:150-157, __get_user_identifiers: the username the search returns,
\* else the configured alias; GitLabError when the search request fails and
\* KeyError when the mail has no alias (config.py:75).
get_user_identifiers(mail) ==
    LET found == gitlab.search[mail]
    IN  IF found = "GitLabError" THEN [raised |-> "GitLabError", id |-> None]
        ELSE IF found # "IndexError" THEN [raised |-> None, id |-> found]
        ELSE IF gitlab.user_alias[mail] = "KeyError"
                THEN [raised |-> "KeyError", id |-> None]
                ELSE [raised |-> None, id |-> gitlab.user_alias[mail]]

\* gitlab.py:135-139, __fetch_most_recent_commit: GitLabError when the request
\* fails, IndexError when no commit exists at or before `time'.
fetch_most_recent_commit(project_id, time) ==
    LET commits == gitlab.commits[time[1]]
    IN  IF ~commits.ok THEN [raised |-> "GitLabError", id |-> 0]
        ELSE IF commits.ids = <<>> THEN [raised |-> "IndexError", id |-> 0]
        ELSE [raised |-> None, id |-> commits.ids[1]]

\* The generator __fetch_all returns for gitlab.py:146-148 before its first
\* item is taken: the items it will yield and whether it raises then.
BlameGenerator(file, ref) ==
    LET run == fetch_all(BlameUri(file, ref), 0)
    IN  [rest |-> run.items, raises |-> run.raised]

\* gitlab.py:171-174: the loop `for item in generator' up to the first item
\* with a line equal to the statement.  The generator is left after that item;
\* without such an item it is left exhausted.
Scan(iterator, statement) ==
    Bind(iterator, LAMBDA generator :
    LET Matches(i) == \E l \in 1 .. Len(generator.rest[i].lines) :
                          strip(generator.rest[i].lines[l]) = statement
        hits == {i \in 1 .. Len(generator.rest) : Matches(i)}
    IN  IF hits # {}
           THEN LET i == CHOOSE h \in hits : \A g \in hits : h <= g
                IN  [found |-> TRUE, author_email |-> generator.rest[i].author_email,
                     raised |-> None,
                     generator |-> [generator EXCEPT
                         !.rest = SubSeq(@, i + 1, Len(@))]]
           ELSE [found |-> FALSE, author_email |-> None,
                 raised |-> IF generator.raises THEN "GitLabError" ELSE None,
                 generator |-> [rest |-> <<>>, raises |-> FALSE]])

\* gitlab.py:141-148, __fetch_blame under @cached: a cached key returns the
\* generator the cache holds; else the most recent commit is looked up and a
\* new generator is cached, unless the lookup raises.
fetch_blame(cache, project_id, file, time) ==
    LET key == <<project_id, file, time>>
    IN  IF DictHas(cache, key)
           THEN [raised |-> None, cache |-> cache]
           ELSE LET last_commit == fetch_most_recent_commit(project_id, time)
                IN  IF last_commit.raised # None
                       THEN [raised |-> last_commit.raised, cache |-> cache]
                       ELSE [raised |-> None,
                             cache |-> DictSet(cache, key,
                                               BlameGenerator(file, last_commit.id))]

\* gitlab.py:169-179, the loop of GitLab.blame over the candidates from the
\* i-th on: GitLabError moves on to the next candidate, any other exception
\* leaves blame, and without a match blame returns None.
RECURSIVE blame_from(_, _, _, _, _)
blame_from(cache, candidates, i, project_id, time) ==
    IF i > Len(candidates)
       THEN [raised |-> None, author |-> None, cache |-> cache]
       ELSE LET file == candidates[i].file
                statement == candidates[i].statement
                key == <<project_id, file, time>>
            IN  Bind(fetch_blame(cache, project_id, file, time), LAMBDA fetched_blame :
                IF fetched_blame.raised = "GitLabError"
                   THEN blame_from(cache, candidates, i + 1, project_id, time)
                   ELSE IF fetched_blame.raised # None
                   THEN [raised |-> fetched_blame.raised, author |-> None, cache |-> cache]
                   ELSE
                Bind(Scan(DictGet(fetched_blame.cache, key), statement), LAMBDA scan :
                Bind(DictSet(fetched_blame.cache, key, scan.generator), LAMBDA scanned :
                    IF ~scan.found
                       THEN blame_from(scanned, candidates, i + 1, project_id, time)
                       ELSE
                Bind(get_user_identifiers(scan.author_email), LAMBDA userid :
                    IF userid.raised = "GitLabError"
                       THEN blame_from(scanned, candidates, i + 1, project_id, time)
                       ELSE IF userid.raised # None
                       THEN [raised |-> userid.raised, author |-> None, cache |-> scanned]
                       ELSE [raised |-> None, author |-> hash_id(userid.id),
                             cache |-> scanned]))))

\* config.py:47-50, get_project_for_log_group: the position of the log group
\* in the mappings stands for the project mapped to it.
get_project_for_log_group(loggroup) ==
    CHOOSE i \in 1 .. Len(config.log_group_mappings) :
        config.log_group_mappings[i] = loggroup

\* gitlab.py:166-179, GitLab.blame
blame(cache, log, loggroup) ==
    blame_from(cache, get_error_info(log.message), 1,
               get_project_for_log_group(loggroup), timestamp_to_zulustr(log.ts))

\* ------------------------------------------- the commits and merges of a project
\* flags=re.I: the letters, and the lower-case form of a character.
UpperCase == <<"A", "B", "C", "D", "E", "F", "G", "H", "I", "J", "K", "L", "M",
               "N", "O", "P", "Q", "R", "S", "T", "U", "V", "W", "X", "Y", "Z">>
LowerCase == <<"a", "b", "c", "d", "e", "f", "g", "h", "i", "j", "k", "l", "m",
               "n", "o", "p", "q", "r", "s", "t", "u", "v", "w", "x", "y", "z">>
lower(c) ==
    IF \E i \in DOMAIN UpperCase : UpperCase[i] = c
       THEN LowerCase[CHOOSE i \in DOMAIN UpperCase : UpperCase[i] = c]
       ELSE c

\* [\s_-] of models.py:192
IsSeparator(c) == c \in {" ", "_", "-"}

\* The end of the longest run of characters with In that begins at position i
\* of s: i - 1 if the run is empty.
run_end(s, i, In(_)) ==
    CHOOSE j \in (i - 1) .. Len(s) :
        /\ \A k \in i .. j : In(s[k])
        /\ j = Len(s) \/ ~In(s[j + 1])

\* An int or None.
NoInt == [is_none |-> TRUE, value |-> 0]
SomeInt(n) == [is_none |-> FALSE, value |-> n]

\* models.py:191-193, re.search(fr"([{project_acronym}]{{5,}}[\s_-]*)(\d+)",
\* text, flags=re.I) for an acronym of letters: the leftmost position from which
\* at least five characters of the acronym's letters, in any case and order,
\* then any separators, then a digit follow; group 2 is the run of digits.
story_search(project_acronym, text) ==
    Bind(text, LAMBDA str :
    LET InClass(c) == \E k \in DOMAIN project_acronym :
                          lower(project_acronym[k]) = lower(c)
        LettersEnd(i) == run_end(str, i, InClass)
        SeparatorsEnd(i) == run_end(str, LettersEnd(i) + 1, IsSeparator)
        starts == {i \in DOMAIN str :
                      /\ LettersEnd(i) - i + 1 >= 5
                      /\ SeparatorsEnd(i) < Len(str)
                      /\ IsDigit(str[SeparatorsEnd(i) + 1])}
    IN  IF starts = {}
           THEN [found |-> FALSE, group2 |-> <<>>]
           ELSE Bind(CHOOSE i \in starts : \A j \in starts : i <= j, LAMBDA i :
                Bind(SeparatorsEnd(i) + 1, LAMBDA d :
                    [found |-> TRUE, group2 |-> SubSeq(str, d, digits_end(str, d))])))

\* models.py:194 and 202: the story id is the number of group 2 unless there is
\* no match, the number is 0 (`story_id and') or it is not below 1000.
story_id_of(story_result) ==
    Bind(IF story_result.found THEN SomeInt(int(story_result.group2).value) ELSE NoInt,
         LAMBDA story_id :
             IF ~story_id.is_none /\ story_id.value # 0 /\ story_id.value < 1000
                THEN story_id ELSE NoInt)

\* models.py:123-127, User.transform_user_id
User_transform_user_id(user_id) == [id |-> hash_id(user_id)]

\* models.py:135-139, User.transform_merge_participants_input
User_transform_merge_participants_input(data) == [id |-> hash_id(data)]

\* models.py:159-168, Commit.transform_input
Commit_transform_input(data, author_id) ==
    [id |-> data.id, author_id |-> author_id, changed_loc |-> data.changed_loc]

\* models.py:188-208, Merge.from_input: the fields of transform_input and the
\* empty default of contributor_ids (models.py:183).
Merge_from_input(data, project_acronym) ==
    [id |-> data.id,
     author_id |-> hash_id(data.author),
     story_id |-> story_id_of(story_search(project_acronym,
                                           data.title \o data.description)),
     contributor_ids |-> <<>>]

\* queue.put, one after the other, of the [label, document] pairs of `items'
puts(p, items) ==
    /\ database_queue' = database_queue \o
           [i \in DOMAIN items |->
               Msg(items[i].label,
                   items[i].document @@ [by |-> p, n |-> nput[p] + i,
                                         label |-> items[i].label])]
    /\ nput' = [nput EXCEPT ![p] = @ + Len(items)]

\* Variant of add_users: no cache, every user is put.
add_users_uncached(cache, users) ==
    [i \in DOMAIN users |-> [label |-> "user", document |-> users[i]]]

\* gitlab.py:71-74, __add_user for the users of `users' in turn: the puts of
\* those whose id is neither cached nor the id of a user before it.
add_users(cache, users) ==
    LET New(i) == /\ users[i].id \notin cache
                  /\ \A j \in 1 .. i - 1 : users[j].id # users[i].id
        RECURSIVE From(_)
        From(i) == IF i > Len(users) THEN <<>>
                   ELSE (IF New(i) THEN <<[label |-> "user", document |-> users[i]]>>
                                   ELSE <<>>) \o From(i + 1)
    IN  From(1)

\* Variant of contributor_ids: every participant is a contributor.
contributor_ids_all(merge, users) == [i \in DOMAIN users |-> users[i].id]

\* gitlab.py:127-131: the ids of the participants other than the author of the
\* merge, in the order of the response.
contributor_ids(merge, users) ==
    LET ids == [i \in DOMAIN users |-> users[i].id]
    IN  SelectSeq(ids, LAMBDA id : id # merge.author_id)

\* gitlab.py:101-113, __fetch_commits_and_authors: one pass of the loop.  An
\* exception of __get_user_identifiers ends the process.
GitLabCommit ==
    LET p == GitLabProc
    IN  /\ is_alive(p)
        /\ pc[p] = "commits"
        /\ idx[p] < Len(gitlab.project_commits)
        /\ \E commit \in {gitlab.project_commits[idx[p] + 1]} :
           \E userid \in {get_user_identifiers(commit.author_email)} :
              IF userid.raised # None
                 THEN /\ raise(p)
                      /\ UNCHANGED <<idx, database_queue, nput, user_cache>>
                 ELSE \E user \in {User_transform_user_id(userid.id)} :
                      /\ puts(p, add_users(user_cache, <<user>>) \o
                              <<[label |-> "commit",
                                 document |-> Commit_transform_input(commit, user.id)]>>)
                      /\ user_cache' = user_cache \cup {user.id}
                      /\ idx' = [idx EXCEPT ![p] = @ + 1]
                      /\ UNCHANGED <<pc, procState>>
        /\ UNCHANGED <<mainVars, consumer, tables, store_writer, ninserted, sentinels>>
        /\ UNCHANGED <<cwVars, constVars, analyzeVars, blame_cache, blamed, fetch_params,
                       fetched>>

\* gitlab.py:99-113: the commits are exhausted, __fetch_merges_and_contributors
\* begins.
GitLabCommitsEnd ==
    LET p == GitLabProc
    IN  /\ is_alive(p)
        /\ pc[p] = "commits"
        /\ idx[p] >= Len(gitlab.project_commits)
        /\ pc' = [pc EXCEPT ![p] = "merges"]
        /\ idx' = [idx EXCEPT ![p] = 0]
        /\ UNCHANGED <<mainVars, procState, consumer, database_queue, tables,
                       store_writer, nput, ninserted, sentinels>>
        /\ UNCHANGED <<cwVars, constVars, gitlabVars, analyzeVars>>

\* gitlab.py:116-133, __fetch_merges_and_contributors: one pass of the loop.
\* The request for the participants may fail with GitLabError, which ends the
\* process.
GitLabMerge ==
    LET p == GitLabProc
    IN  /\ is_alive(p)
        /\ pc[p] = "merges"
        /\ idx[p] < Len(gitlab.merge_requests)
        /\ \E dataset \in {gitlab.merge_requests[idx[p] + 1]} :
           \E merge \in {Merge_from_input(dataset, config.project_acronym)} :
              IF ~dataset.participants.ok
                 THEN /\ raise(p)
                      /\ UNCHANGED <<idx, database_queue, nput, user_cache>>
                 ELSE \E users \in {[i \in DOMAIN dataset.participants.users |->
                          User_transform_merge_participants_input(
                              dataset.participants.users[i])]} :
                      /\ puts(p, add_users(user_cache, users) \o
                              <<[label |-> "merge",
                                 document |-> [merge EXCEPT !.contributor_ids =
                                                   contributor_ids(merge, users)]]>>)
                      /\ user_cache' = user_cache \cup {users[i].id : i \in DOMAIN users}
                      /\ idx' = [idx EXCEPT ![p] = @ + 1]
                      /\ UNCHANGED <<pc, procState>>
        /\ UNCHANGED <<mainVars, consumer, tables, store_writer, ninserted, sentinels>>
        /\ UNCHANGED <<cwVars, constVars, analyzeVars, blame_cache, blamed, fetch_params,
                       fetched>>

\* gitlab.py:159-164: the merges of the project are exhausted; the project is
\* the last of its group, so that the loop over the projects ends next.
GitLabMergesEnd ==
    LET p == GitLabProc
    IN  /\ is_alive(p)
        /\ pc[p] = "merges"
        /\ idx[p] >= Len(gitlab.merge_requests)
        /\ pc' = [pc EXCEPT ![p] = "projects"]
        /\ idx' = [idx EXCEPT ![p] = config.projects]
        /\ UNCHANGED <<mainVars, procState, consumer, database_queue, tables,
                       store_writer, nput, ninserted, sentinels>>
        /\ UNCHANGED <<cwVars, constVars, gitlabVars, analyzeVars>>

\* gitlab.py:163-164, the body of the loop over the projects
GitLabProject ==
    \/ GitLabCommit
    \/ GitLabCommitsEnd
    \/ GitLabMerge
    \/ GitLabMergesEnd

\* ----------------------------------------------------- CloudWatch producer
\* models.py:63-66 and 73-76, log_timestamp_to_epoch: the seconds of a row time.
log_timestamp_to_epoch(t) == t \div TicksPerSecond

\* The first n elements of s.
Take(s, n) == SubSeq(s, 1, IF Len(s) < n THEN Len(s) ELSE n)

\* The log service's answer to a completed query (cloudwatch.py:12-16,52-58):
\* the rows of the log group inside the window, oldest first, at most `limit'.
QueryRows(log_group, start, end) ==
    LET InWindow(r) == start * TicksPerSecond <= r.t /\ r.t <= end * TicksPerSecond
    IN  Take(SelectSeq(service[log_group], InWindow), QUERY_LIMIT)

NoResult == [lg |-> 0, rows |-> <<>>, j |-> 0]

\* cloudwatch.py:49-65, __start_error_query: what a call may return or raise.
start_error_query(p) ==
    {[status |-> "started", id |-> Len(started[p]) + 1] : x \in
        IF Len(started[p]) < MaxQueries THEN {1} ELSE {}}
    \cup {[status |-> LIMIT_REACHED, id |-> 0] : x \in
        IF refusals[p] < MaxRefusals THEN {1} ELSE {}}
    \cup {[status |-> st, id |-> 0] : st \in {NOT_FOUND, "raise"}}

\* cloudwatch.py:67-82, __get_query_results: what a call may return or raise.
\* "raise" stands for a ClientError other than throttling and for a status other
\* than Complete, Scheduled and Running.
get_query_results(p, query) ==
    {[status |-> "Complete",
      rows |-> QueryRows(started[p][query].lg, started[p][query].start,
                         started[p][query].end)]}
    \cup {[status |-> st, rows |-> <<>>] : st \in {IN_PROGRESS, THROTTLED, "raise"}}

\* cloudwatch.py:134-137, __add_account
CWAddAccount(p) ==
    /\ is_alive(p)
    /\ pc[p] = "add_account"
    /\ put(p, "account", 0, 0, None)
    /\ pc' = [pc EXCEPT ![p] = "add_loggroups"]
    /\ idx' = [idx EXCEPT ![p] = 1]
    /\ UNCHANGED <<mainVars, procState, consumer, tables, store_writer, ninserted,
                   sentinels>>
    /\ UNCHANGED <<cwVars, constVars, gitlabVars, analyzeVars>>

\* cloudwatch.py:139-143, __add_loggroups: one iteration
CWAddLoggroups(p) ==
    /\ is_alive(p)
    /\ pc[p] = "add_loggroups"
    /\ IF idx[p] <= Len(config.log_group_mappings)
          THEN /\ put(p, "loggroup", config.log_group_mappings[idx[p]], 0, None)
               /\ idx' = [idx EXCEPT ![p] = @ + 1]
               /\ UNCHANGED pc
          ELSE /\ pc' = [pc EXCEPT ![p] = "query_logs"]
               /\ UNCHANGED <<idx, database_queue, nput>>
    /\ UNCHANGED <<mainVars, procState, consumer, tables, store_writer, ninserted,
                   sentinels>>
    /\ UNCHANGED <<cwVars, constVars, gitlabVars, analyzeVars>>

\* cloudwatch.py:95-97, the head of __query_logs
CWQueryLogs(p) ==
    /\ is_alive(p)
    /\ pc[p] = "query_logs"
    /\ log_groups' = [log_groups EXCEPT ![p] =
           [i \in 1 .. Len(config.log_groups) |->
               [key |-> config.log_groups[i],
                val |-> [start |-> config.start_timestamp,
                         end |-> config.limit_timestamp]]]]
    /\ queries' = [queries EXCEPT ![p] = <<>>]
    /\ pc' = [pc EXCEPT ![p] = "submit"]
    /\ UNCHANGED <<mainVars, procState, consumer, database_queue, tables, store_writer,
                   nput, ninserted, sentinels, idx, results, started, refusals, dropped>>
    /\ UNCHANGED <<constVars, gitlabVars, analyzeVars>>

\* Variant of CWSubmitAnswer: a log group the service refuses for its query
\* limit is given up like one that was not found.
CWSubmitAnswer_discard(p, query) ==
    LET log_group == log_groups[p][1].key
        time_restriction == log_groups[p][1].val
    IN  CASE query.status = "raise" ->
               /\ raise(p)
               /\ refusals' = [refusals EXCEPT ![p] = 0]
               /\ UNCHANGED <<idx, log_groups, queries, started, dropped>>
          [] query.status = LIMIT_REACHED ->
               /\ refusals' = [refusals EXCEPT ![p] = @ + 1]
               /\ log_groups' = [log_groups EXCEPT ![p] = DictPop(@, log_group)]
               /\ UNCHANGED <<pc, idx, procState, queries, started, dropped>>
          [] query.status = NOT_FOUND ->
               /\ log_groups' = [log_groups EXCEPT ![p] = DictPop(@, log_group)]
               /\ dropped' = [dropped EXCEPT ![p] = @ \cup {log_group}]
               /\ refusals' = [refusals EXCEPT ![p] = 0]
               /\ UNCHANGED <<pc, idx, procState, queries, started>>
          [] query.status = "started" ->
               /\ started' = [started EXCEPT ![p] = Append(@,
                      [lg |-> log_group, start |-> time_restriction.start,
                       end |-> time_restriction.end, handled |-> 0])]
               /\ queries' = [queries EXCEPT ![p] = DictSet(@, log_group, query.id)]
               /\ log_groups' = [log_groups EXCEPT ![p] = DictPop(@, log_group)]
               /\ refusals' = [refusals EXCEPT ![p] = 0]
               /\ UNCHANGED <<pc, idx, procState, dropped>>

\* Variant of CWSubmitAnswer: a log group that was not found stays pending.
CWSubmitAnswer_keep(p, query) ==
    LET log_group == log_groups[p][1].key
        time_restriction == log_groups[p][1].val
    IN  CASE query.status = "raise" ->
               /\ raise(p)
               /\ refusals' = [refusals EXCEPT ![p] = 0]
               /\ UNCHANGED <<idx, log_groups, queries, started, dropped>>
          [] query.status = LIMIT_REACHED ->
               /\ pc' = [pc EXCEPT ![p] = "poll"]
               /\ idx' = [idx EXCEPT ![p] = Len(queries[p])]
               /\ refusals' = [refusals EXCEPT ![p] = @ + 1]
               /\ UNCHANGED <<procState, log_groups, queries, started, dropped>>
          [] query.status = NOT_FOUND ->
               /\ pc' = [pc EXCEPT ![p] = "poll"]
               /\ idx' = [idx EXCEPT ![p] = Len(queries[p])]
               /\ dropped' = [dropped EXCEPT ![p] = @ \cup {log_group}]
               /\ refusals' = [refusals EXCEPT ![p] = 0]
               /\ UNCHANGED <<procState, log_groups, queries, started>>
          [] query.status = "started" ->
               /\ started' = [started EXCEPT ![p] = Append(@,
                      [lg |-> log_group, start |-> time_restriction.start,
                       end |-> time_restriction.end, handled |-> 0])]
               /\ queries' = [queries EXCEPT ![p] = DictSet(@, log_group, query.id)]
               /\ log_groups' = [log_groups EXCEPT ![p] = DictPop(@, log_group)]
               /\ refusals' = [refusals EXCEPT ![p] = 0]
               /\ UNCHANGED <<pc, idx, procState, dropped>>

\* cloudwatch.py:101-111: one pass of `while log_groups' in which
\* __start_error_query answers `query' for the first pending log group.
CWSubmitAnswer(p, query) ==
    LET log_group == log_groups[p][1].key
        time_restriction == log_groups[p][1].val
    IN  CASE query.status = "raise" ->
               /\ raise(p)
               /\ refusals' = [refusals EXCEPT ![p] = 0]
               /\ UNCHANGED <<idx, log_groups, queries, started, dropped>>
          [] query.status = LIMIT_REACHED ->
               /\ pc' = [pc EXCEPT ![p] = "poll"]
               /\ idx' = [idx EXCEPT ![p] = Len(queries[p])]
               /\ refusals' = [refusals EXCEPT ![p] = @ + 1]
               /\ UNCHANGED <<procState, log_groups, queries, started, dropped>>
          [] query.status = NOT_FOUND ->
               /\ log_groups' = [log_groups EXCEPT ![p] = DictPop(@, log_group)]
               /\ dropped' = [dropped EXCEPT ![p] = @ \cup {log_group}]
               /\ refusals' = [refusals EXCEPT ![p] = 0]
               /\ UNCHANGED <<pc, idx, procState, queries, started>>
          [] query.status = "started" ->
               /\ started' = [started EXCEPT ![p] = Append(@,
                      [lg |-> log_group, start |-> time_restriction.start,
                       end |-> time_restriction.end, handled |-> 0])]
               /\ queries' = [queries EXCEPT ![p] = DictSet(@, log_group, query.id)]
               /\ log_groups' = [log_groups EXCEPT ![p] = DictPop(@, log_group)]
               /\ refusals' = [refusals EXCEPT ![p] = 0]
               /\ UNCHANGED <<pc, idx, procState, dropped>>

\* cloudwatch.py:100-111: one test of `while log_groups' and, if it holds, one
\* pass of the loop.
CWSubmit(p) ==
    /\ is_alive(p)
    /\ pc[p] = "submit"
    /\ IF log_groups[p] = <<>>
          THEN /\ pc' = [pc EXCEPT ![p] = "poll"]
               /\ idx' = [idx EXCEPT ![p] = Len(queries[p])]
               /\ UNCHANGED <<procState, log_groups, queries, started, refusals, dropped>>
          ELSE \E query \in start_error_query(p) : CWSubmitAnswer(p, query)
    /\ UNCHANGED <<mainVars, consumer, database_queue, tables, store_writer, nput,
                   ninserted, sentinels, results>>
    /\ UNCHANGED <<constVars, gitlabVars, analyzeVars>>

\* Variant of CWPollAnswer: a throttled query is given up.
CWPollAnswer_giveup(p, res) ==
    LET log_group == queries[p][idx[p]].key
        query == queries[p][idx[p]].val
    IN  CASE res.status = "raise" ->
               /\ raise(p)
               /\ refusals' = [refusals EXCEPT ![p] = 0]
               /\ UNCHANGED <<idx, results, started, queries>>
          [] res.status = IN_PROGRESS ->
               /\ idx' = [idx EXCEPT ![p] = @ - 1]
               /\ UNCHANGED <<pc, procState, results, started, queries, refusals>>
          [] res.status = THROTTLED ->
               /\ idx' = [idx EXCEPT ![p] = @ - 1]
               /\ queries' = [queries EXCEPT ![p] = DictPop(@, log_group)]
               /\ UNCHANGED <<pc, procState, results, started, refusals>>
          [] res.status = "Complete" ->
               /\ results' = [results EXCEPT ![p] =
                      [lg |-> log_group, rows |-> res.rows, j |-> 1]]
               /\ started' = [started EXCEPT ![p][query].handled = @ + 1]
               /\ pc' = [pc EXCEPT ![p] = "handle"]
               /\ UNCHANGED <<idx, procState, queries, refusals>>

\* cloudwatch.py:114-123: one pass of the loop over the in-flight queries in
\* which __get_query_results answers `res' for the query at position idx.
CWPollAnswer(p, res) ==
    LET log_group == queries[p][idx[p]].key
        query == queries[p][idx[p]].val
    IN  CASE res.status = "raise" ->
               /\ raise(p)
               /\ refusals' = [refusals EXCEPT ![p] = 0]
               /\ UNCHANGED <<idx, results, started, queries>>
          [] res.status \in {IN_PROGRESS, THROTTLED} ->
               /\ idx' = [idx EXCEPT ![p] = @ - 1]
               /\ UNCHANGED <<pc, procState, results, started, queries, refusals>>
          [] res.status = "Complete" ->
               /\ results' = [results EXCEPT ![p] =
                      [lg |-> log_group, rows |-> res.rows, j |-> 1]]
               /\ started' = [started EXCEPT ![p][query].handled = @ + 1]
               /\ pc' = [pc EXCEPT ![p] = "handle"]
               /\ UNCHANGED <<idx, procState, queries, refusals>>

\* cloudwatch.py:113-123: one test of the loop over the in-flight queries, from
\* the last to the first, and the poll of one query.
CWPoll(p) ==
    /\ is_alive(p)
    /\ pc[p] = "poll"
    /\ IF idx[p] = 0
          THEN /\ pc' = [pc EXCEPT ![p] = "check"]
               /\ UNCHANGED <<idx, procState, results, started, queries, refusals>>
          ELSE \E res \in get_query_results(p, queries[p][idx[p]].val) :
                  CWPollAnswer(p, res)
    /\ UNCHANGED <<mainVars, consumer, database_queue, tables, store_writer, nput,
                   ninserted, sentinels, log_groups, dropped>>
    /\ UNCHANGED <<constVars, gitlabVars, analyzeVars>>

\* models.py:78-87, ErrorLog.transform_query_result
transform_query_result(result, log_group) ==
    [lg |-> log_group, ts |-> log_timestamp_to_epoch(result.t),
     message |-> result.message]

\* Variant of ErrorLogDocument: the log is queued as it is.
ErrorLogDocument_raw(log) == log

\* cloudwatch.py:89, the dict that is queued: the log without its message
ErrorLogDocument(log) == [k \in DOMAIN log \ {"message"} |-> log[k]]

\* cloudwatch.py:84-89, __handle_query_results: one row.  An exception that
\* GitLab.blame lets through ends the process.
CWHandle(p) ==
    /\ is_alive(p)
    /\ pc[p] = "handle"
    /\ results[p].j <= Len(results[p].rows)
    /\ \E log \in {transform_query_result(results[p].rows[results[p].j], results[p].lg)} :
       \E author_id \in {blame(blame_cache[p], log, results[p].lg)} :
           /\ blame_cache' = [blame_cache EXCEPT ![p] = author_id.cache]
           /\ blamed' = [blamed EXCEPT ![p] =
                  [lg |-> log.lg, ts |-> log.ts, message |-> log.message,
                   raised |-> author_id.raised, author |-> author_id.author]]
           /\ IF author_id.raised # None
                 THEN /\ raise(p)
                      /\ refusals' = [refusals EXCEPT ![p] = 0]
                      /\ UNCHANGED <<database_queue, nput, results>>
                 ELSE /\ put_document(p, "errorlog",
                             ErrorLogDocument([author |-> author_id.author] @@ log))
                      /\ results' = [results EXCEPT ![p].j = @ + 1]
                      /\ UNCHANGED <<pc, procState, refusals>>
    /\ UNCHANGED <<mainVars, consumer, tables, store_writer, ninserted, sentinels, idx,
                   log_groups, queries, started, dropped>>
    /\ UNCHANGED <<constVars, analyzeVars, fetch_params, fetched, user_cache>>

\* Variant of CWHandled: the completed query stays in the in-flight dict.
CWHandled_nopop(p) ==
    /\ is_alive(p)
    /\ pc[p] = "handle"
    /\ results[p].j > Len(results[p].rows)
    /\ LET rows == results[p].rows
           log_group == results[p].lg
       IN  log_groups' = [log_groups EXCEPT ![p] =
               IF Len(rows) >= QUERY_LIMIT
                  THEN DictSet(@, log_group,
                           [start |-> log_timestamp_to_epoch(rows[Len(rows)].t),
                            end |-> config.limit_timestamp])
                  ELSE @]
    /\ results' = [results EXCEPT ![p] = NoResult]
    /\ idx' = [idx EXCEPT ![p] = @ - 1]
    /\ pc' = [pc EXCEPT ![p] = "poll"]
    /\ UNCHANGED <<mainVars, procState, consumer, database_queue, tables, store_writer,
                   nput, ninserted, sentinels, started, queries, refusals, dropped>>
    /\ UNCHANGED <<constVars, gitlabVars, analyzeVars>>

\* Variant of CWHandled: the next window starts one second after the last row.
CWHandled_next_second(p) ==
    /\ is_alive(p)
    /\ pc[p] = "handle"
    /\ results[p].j > Len(results[p].rows)
    /\ LET rows == results[p].rows
           log_group == results[p].lg
       IN  /\ log_groups' = [log_groups EXCEPT ![p] =
                  IF Len(rows) >= QUERY_LIMIT
                     THEN DictSet(@, log_group,
                              [start |-> log_timestamp_to_epoch(rows[Len(rows)].t) + 1,
                               end |-> config.limit_timestamp])
                     ELSE @]
           /\ queries' = [queries EXCEPT ![p] = DictPop(@, log_group)]
    /\ results' = [results EXCEPT ![p] = NoResult]
    /\ idx' = [idx EXCEPT ![p] = @ - 1]
    /\ pc' = [pc EXCEPT ![p] = "poll"]
    /\ UNCHANGED <<mainVars, procState, consumer, database_queue, tables, store_writer,
                   nput, ninserted, sentinels, started, refusals, dropped>>
    /\ UNCHANGED <<constVars, gitlabVars, analyzeVars>>

\* cloudwatch.py:125-129: the end of one pass over a completed query
CWHandled(p) ==
    /\ is_alive(p)
    /\ pc[p] = "handle"
    /\ results[p].j > Len(results[p].rows)
    /\ LET rows == results[p].rows
           log_group == results[p].lg
       IN  /\ log_groups' = [log_groups EXCEPT ![p] =
                  IF Len(rows) >= QUERY_LIMIT
                     THEN DictSet(@, log_group,
                              [start |-> log_timestamp_to_epoch(rows[Len(rows)].t),
                               end |-> config.limit_timestamp])
                     ELSE @]
           /\ queries' = [queries EXCEPT ![p] = DictPop(@, log_group)]
    /\ results' = [results EXCEPT ![p] = NoResult]
    /\ idx' = [idx EXCEPT ![p] = @ - 1]
    /\ pc' = [pc EXCEPT ![p] = "poll"]
    /\ UNCHANGED <<mainVars, procState, consumer, database_queue, tables, store_writer,
                   nput, ninserted, sentinels, started, refusals, dropped>>
    /\ UNCHANGED <<constVars, gitlabVars, analyzeVars>>

\* Variant of CWCycleEnd: the loop ends as soon as no log group is pending.
CWCycleEnd_pending_only(p) ==
    /\ is_alive(p)
    /\ pc[p] = "check"
    /\ IF log_groups[p] = <<>>
          THEN return(p)
          ELSE /\ pc' = [pc EXCEPT ![p] = "submit"]
               /\ UNCHANGED procState
    /\ UNCHANGED <<mainVars, consumer, database_queue, tables, store_writer, nput,
                   ninserted, sentinels, idx>>
    /\ UNCHANGED <<cwVars, constVars, gitlabVars, analyzeVars>>

\* cloudwatch.py:131-132: the end of a cycle
CWCycleEnd(p) ==
    /\ is_alive(p)
    /\ pc[p] = "check"
    /\ IF log_groups[p] = <<>> /\ queries[p] = <<>>
          THEN return(p)
          ELSE /\ pc' = [pc EXCEPT ![p] = "submit"]
               /\ UNCHANGED procState
    /\ UNCHANGED <<mainVars, consumer, database_queue, tables, store_writer, nput,
                   ninserted, sentinels, idx>>
    /\ UNCHANGED <<cwVars, constVars, gitlabVars, analyzeVars>>

\* ------------------------------------------------------------- the system
LogGroupIds == 1 .. MaxLogGroups

\* The files, commits, mails and seconds of the GitLab side of the model.
Files == {1, 2}
Refs == {1}
Uris == {GroupsUri, ProjectsUri} \cup {BlameUri(f, r) : f \in Files, r \in Refs}
Mails == {"alice@", "bob@"}
Seconds == 0 .. MaxTick

\* One page of a response: whether the request succeeds (gitlab.py:35), the
\* items of its JSON list and its X-Next-Page header (0: none).
Page(ok, items, next) == [ok |-> ok, items |-> items, next |-> next]

\* One item of a blame response: the lines of a commit's range and the mail of
\* its author.
BlameItem(text, mail) ==
    [lines |-> <<[indent |-> 4, text |-> text]>>, author_email |-> mail]

\* A frame of a traceback in a message: `statement' in `file'.
Frame(file, statement) == [file |-> file, statement |-> statement]

\* A GitLab that serves the blame pages `blames' per file, answers the commit
\* lookup with `commits' and the user search for bob's mail with `bob'.
GitLabApi(blames, commits, bob) ==
    [pages |-> [u \in Uris |-> IF u \in {GroupsUri, ProjectsUri}
                                   THEN <<Page(TRUE, <<>>, 0)>>
                                   ELSE blames[u[2]]],
     commits |-> [t \in Seconds |-> commits],
     search |-> [m \in Mails |-> IF m = "alice@" THEN "alice" ELSE bob],
     user_alias |-> [m \in Mails |-> IF m = "bob@" THEN "bob" ELSE "KeyError"],
     project_commits |-> <<>>,
     merge_requests |-> <<>>]

\* Before the first call of GitLab.blame and of __fetch_all.
NoBlame == [lg |-> 0, ts |-> 0, message |-> <<>>, raised |-> None, author |-> None]
\* Before the first call of calculate_ownership.
NoOwnership == [commits |-> <<>>, author |-> None, raised |-> None, num |-> 1, den |-> 1]
NoFetch == [uri |-> GroupsUri, default |-> FALSE, before |-> 0, items |-> <<>>,
            requests |-> <<>>, raised |-> FALSE]

\* The GitLab of a pipeline run: file 1 is blamed on alice in one page.
PipelineGitLab ==
    GitLabApi([f \in Files |-> <<Page(TRUE, <<BlameItem(1, "alice@")>>, 0)>>],
              [ok |-> TRUE, ids |-> <<1>>], "bob")

\* The first position of each producer's target.
StartPc == [p \in Procs |->
    CASE p = GitLabProc -> "groups"
      [] p = JiraProc -> "open"
      [] OTHER -> "add_account"]

StaleDoc(l) == Doc(Stale, 0, l, 0, 0, None)

\* The command lines of main.py:41-49, as the set of sources s for which
\* `args.s or args.all' holds.
ArgSets == SUBSET Sources

\* A project acronym of five letters.
STORY == <<"S", "T", "O", "R", "Y">>

\* The configuration of a pipeline run that names the accounts `accounts'.
PipelineConfig(accounts) ==
    [accounts |-> accounts,
     log_groups |-> <<1>>,
     log_group_mappings |-> <<1>>,
     start_timestamp |-> 0,
     limit_timestamp |-> MaxTick \div TicksPerSecond,
     projects |-> MaxProjects,
     project_acronym |-> STORY]

\* Rows of a Jira export: the header, a story of sprints 12 and 4 and a row
\* whose sprint column holds no digit.
JiraHeader == <<<<"K", "e", "y">>, <<"S", "p", "r", "i", "n", "t">>>>
StoryRow == <<<<"7">>, <<"S", "1", "2", " ", "3">>, <<>>, <<"4">>>>
BacklogRow == <<<<"7">>, <<"B">>>>

\* The Jira exports of a pipeline run: MaxStories rows after the header, of
\* which at most one is a row that Story.transform_input rejects.
PipelineExports ==
    {<<JiraHeader>> \o [i \in 1 .. MaxStories |-> IF i = bad THEN BacklogRow ELSE StoryRow] :
        bad \in 0 .. MaxStories}

PipelineService ==
    [lg \in LogGroupIds |->
        IF lg = 1 THEN <<[t |-> 1, message |-> <<Frame(1, 1)>>]>> ELSE <<>>]

\* The state when main.py starts: the store is empty or holds an earlier run.
InitRest ==
    /\ mainPc = "begin"
    /\ mainIdx = 1
    /\ producers = <<>>
    /\ procState = [p \in Procs |-> "none"]
    /\ consumer = "none"
    /\ database_queue = <<>>
    /\ tables \in {[l \in Labels |-> <<>>], [l \in Labels |-> <<StaleDoc(l)>>]}
    /\ store_writer = [by |-> NoProc, op |-> None, started |-> FALSE]
    /\ nput = [p \in Procs |-> 0]
    /\ ninserted = [p \in Procs \cup {Stale} |-> 0]
    /\ sentinels = 0
    /\ pc = StartPc
    /\ idx = [p \in Procs |-> 0]
    /\ log_groups = [p \in CloudWatchProcs |-> <<>>]
    /\ queries = [p \in CloudWatchProcs |-> <<>>]
    /\ results = [p \in CloudWatchProcs |-> NoResult]
    /\ started = [p \in CloudWatchProcs |-> <<>>]
    /\ refusals = [p \in CloudWatchProcs |-> 0]
    /\ dropped = [p \in CloudWatchProcs |-> {}]
    /\ gitlab = PipelineGitLab
    /\ blame_cache = [p \in CloudWatchProcs |-> <<>>]
    /\ blamed = [p \in CloudWatchProcs |-> NoBlame]
    /\ fetch_params = 0
    /\ fetched = NoFetch
    /\ user_cache = {}
    /\ calculated = NoOwnership

\* A run of any choice of sources with one account, or of CloudWatch alone
\* with two accounts.
Init ==
    /\ args \in ArgSets
    /\ config \in {PipelineConfig(<<1>>), PipelineConfig(<<1, 2>>)}
    /\ Len(config.accounts) = 1 \/ args = {CLOUDWATCH}
    /\ service = PipelineService
    /\ jira_input \in IF JIRA \in args THEN PipelineExports ELSE {<<JiraHeader>>}
    /\ InitRest

Main ==
    \/ MainBegin
    \/ MainCloudwatch
    \/ MainGitlab
    \/ MainJira
    \/ MainStart
    \/ MainStartConsumer
    \/ visualize
    \/ MainJoin
    \/ MainSentinel
    \/ MainJoinConsumer

CloudWatch(p) ==
    \/ CWAddAccount(p)
    \/ CWAddLoggroups(p)
    \/ CWQueryLogs(p)
    \/ CWSubmit(p)
    \/ CWPoll(p)
    \/ CWHandle(p)
    \/ CWHandled(p)
    \/ CWCycleEnd(p)

Next ==
    \/ Main
    \/ listen
    \/ JiraExtract
    \/ GitLabExtract
    \/ \E p \in CloudWatchProcs : CloudWatch(p)

Spec == Init /\ [][Next]_vars

\* A run with one account over the store of an earlier run.
InitFair ==
    /\ Init
    /\ Len(config.accounts) = 1
    /\ tables = [l \in Labels |-> <<StaleDoc(l)>>]

\* Every process is scheduled: the operating system runs each of them.
FairSpec ==
    /\ InitFair
    /\ [][Next]_vars
    /\ WF_vars(Main)
    /\ WF_vars(listen)
    /\ WF_vars(JiraExtract)
    /\ WF_vars(GitLabExtract)
    /\ \A p \in CloudWatchProcs : WF_vars(CloudWatch(p))

\* ------------------------------------------------- the per-account query loop
\* Row lists the log service may hold for a log group: oldest first.
RowLists ==
    {rows \in UNION {[1 .. n -> 0 .. MaxTick] : n \in 0 .. MaxRows} :
        \A i \in 1 .. Len(rows) - 1 : rows[i] <= rows[i + 1]}

LoopConfig ==
    [accounts |-> <<1>>,
     log_groups |-> [i \in 1 .. MaxLogGroups |-> i],
     log_group_mappings |-> [i \in 1 .. MaxLogGroups |-> i],
     start_timestamp |-> 0,
     limit_timestamp |-> MaxTick \div TicksPerSecond,
     projects |-> 0,
     project_acronym |-> STORY]

\* The state of a run for one account once main.py:94 waits for its producer:
\* the CloudWatch tables are cleared and the producer starts its target.
LoopStart ==
    /\ args = {CLOUDWATCH}
    /\ mainPc = "visualize"
    /\ mainIdx = 1
    /\ producers = <<CloudWatchProc(1)>>
    /\ procState = [p \in Procs |-> IF p = CloudWatchProc(1) THEN "running" ELSE "none"]
    /\ consumer = "running"
    /\ database_queue = <<>>
    /\ tables = [l \in Labels |-> <<>>]
    /\ store_writer = [by |-> MainProc, op |-> "truncate", started |-> FALSE]
    /\ nput = [p \in Procs |-> 0]
    /\ ninserted = [p \in Procs \cup {Stale} |-> 0]
    /\ sentinels = 0
    /\ pc = StartPc
    /\ idx = [p \in Procs |-> 0]
    /\ log_groups = [p \in CloudWatchProcs |-> <<>>]
    /\ queries = [p \in CloudWatchProcs |-> <<>>]
    /\ results = [p \in CloudWatchProcs |-> NoResult]
    /\ started = [p \in CloudWatchProcs |-> <<>>]
    /\ refusals = [p \in CloudWatchProcs |-> 0]
    /\ dropped = [p \in CloudWatchProcs |-> {}]
    /\ blame_cache = [p \in CloudWatchProcs |-> <<>>]
    /\ blamed = [p \in CloudWatchProcs |-> NoBlame]
    /\ fetch_params = 0
    /\ fetched = NoFetch
    /\ user_cache = {}
    /\ calculated = NoOwnership

\* The query loop over LoopConfig for any rows of log group 1, whose messages
\* hold no frame.
InitLoop ==
    /\ config = LoopConfig
    /\ \E rows \in RowLists :
          service = [lg \in LogGroupIds |->
              IF lg = 1 THEN [i \in 1 .. Len(rows) |-> [t |-> rows[i], message |-> <<>>]]
                        ELSE <<[t |-> 1, message |-> <<>>]>>]
    /\ gitlab = PipelineGitLab
    /\ jira_input = <<JiraHeader>>
    /\ LoopStart

NextLoop == \E p \in CloudWatchProcs : CloudWatch(p)

SpecLoop == InitLoop /\ [][NextLoop]_vars

\* The producer's process is scheduled as long as it can take a step.
SpecLoopFair ==
    /\ InitLoop
    /\ [][NextLoop]_vars
    /\ \A p \in CloudWatchProcs : WF_vars(CloudWatch(p))

\* ------------------------------------------- the correlation of error rows
\* Frames per message.
Frames == {Frame(1, 1), Frame(1, 2), Frame(2, 1)}
Messages == UNION {[1 .. n -> Frames] : n \in 0 .. MaxFrames}

\* The blame of file 1: one page; two pages; a second page that fails.
BlamePages ==
    {<<Page(TRUE, <<BlameItem(1, "alice@")>>, 0)>>,
     <<Page(TRUE, <<BlameItem(2, "alice@")>>, 2), Page(TRUE, <<BlameItem(1, "bob@")>>, 0)>>,
     <<Page(TRUE, <<BlameItem(1, "bob@")>>, 2), Page(FALSE, <<>>, 0)>>}

\* File 2 is not in the repository: the request for its blame fails.  The
\* commit lookup finds a commit, finds none or fails; the search for bob's mail
\* finds him, finds nobody (his alias is configured) or fails.
GitLabApis ==
    {GitLabApi([f \in Files |-> IF f = 1 THEN b ELSE <<Page(FALSE, <<>>, 0)>>],
               commits, bob) :
        b \in BlamePages,
        commits \in {[ok |-> TRUE, ids |-> <<1>>], [ok |-> TRUE, ids |-> <<>>],
                     [ok |-> FALSE, ids |-> <<>>]},
        bob \in {"bob", "IndexError", "GitLabError"}}

CorrelateConfig ==
    [LoopConfig EXCEPT !.log_groups = <<1>>, !.log_group_mappings = <<1>>]

\* The query loop over one log group that holds one or two rows of the same
\* second with the same message, against any of the GitLabs above.
InitCorrelate ==
    /\ config = CorrelateConfig
    /\ \E message \in Messages : \E n \in 1 .. 2 :
          service = [lg \in LogGroupIds |->
              IF lg = 1 THEN [i \in 1 .. n |-> [t |-> i - 1, message |-> message]]
                        ELSE <<>>]
    /\ gitlab \in GitLabApis
    /\ jira_input = <<JiraHeader>>
    /\ LoopStart

SpecCorrelate == InitCorrelate /\ [][NextLoop]_vars

\* --------------------------------------------------- the paginated fetch
\* gitlab.py:85, the call __fetch_all(uri) of __fetch_groups: additional_params
\* is the default dict of the function, which line 61 writes to.
FetchGroups ==
    /\ is_alive(GitLabProc)
    /\ LET run == fetch_all(GroupsUri, fetch_params)
       IN  /\ fetch_params' = run.page
           /\ fetched' = [uri |-> GroupsUri, default |-> TRUE, before |-> fetch_params,
                          items |-> run.items, requests |-> run.requests,
                          raised |-> run.raised]
    /\ UNCHANGED <<mainVars, procState, consumer, database_queue, tables, store_writer,
                   nput, ninserted, sentinels, pc, idx, blame_cache, blamed>>
    /\ UNCHANGED <<cwVars, constVars, analyzeVars, user_cache>>

\* gitlab.py:92, the call __fetch_all(uri, {"archived": "false"}) of
\* __fetch_projects: additional_params is a new dict without a page.
FetchProjects ==
    /\ is_alive(GitLabProc)
    /\ LET run == fetch_all(ProjectsUri, 0)
       IN  fetched' = [uri |-> ProjectsUri, default |-> FALSE, before |-> 0,
                       items |-> run.items, requests |-> run.requests,
                       raised |-> run.raised]
    /\ UNCHANGED <<mainVars, procState, consumer, database_queue, tables, store_writer,
                   nput, ninserted, sentinels, pc, idx, blame_cache, blamed,
                   fetch_params>>
    /\ UNCHANGED <<cwVars, constVars, analyzeVars, user_cache>>

\* The listings GitLab may serve: MaxPages pages, each with up to MaxItems
\* items, a cursor to a later page or none, and a request that succeeds or
\* fails.  Item <<k, j>> is the j-th item of page k.
PageLists ==
    {[k \in 1 .. MaxPages |->
         Page(oks[k], [j \in 1 .. ns[k] |-> <<k, j>>], nexts[k])] :
        oks \in [1 .. MaxPages -> BOOLEAN],
        ns \in [1 .. MaxPages -> 0 .. MaxItems],
        nexts \in {f \in [1 .. MaxPages -> 0 .. MaxPages] :
                     \A k \in 1 .. MaxPages : f[k] = 0 \/ f[k] > k}}

\* The GitLab producer runs against a GitLab that serves one of the listings
\* for the descendant groups and the projects.
InitFetch ==
    /\ args = {GITLAB}
    /\ config = PipelineConfig(<<1>>)
    /\ service = PipelineService
    /\ jira_input = <<JiraHeader>>
    /\ \E pl \in PageLists :
          gitlab = [PipelineGitLab EXCEPT !.pages =
                       [u \in Uris |-> IF u \in {GroupsUri, ProjectsUri} THEN pl ELSE @[u]]]
    /\ mainPc = "visualize"
    /\ mainIdx = 1
    /\ producers = <<GitLabProc>>
    /\ procState = [p \in Procs |-> IF p = GitLabProc THEN "running" ELSE "none"]
    /\ consumer = "running"
    /\ database_queue = <<>>
    /\ tables = [l \in Labels |-> <<>>]
    /\ store_writer = [by |-> MainProc, op |-> "truncate", started |-> FALSE]
    /\ nput = [p \in Procs |-> 0]
    /\ ninserted = [p \in Procs \cup {Stale} |-> 0]
    /\ sentinels = 0
    /\ pc = StartPc
    /\ idx = [p \in Procs |-> 0]
    /\ log_groups = [p \in CloudWatchProcs |-> <<>>]
    /\ queries = [p \in CloudWatchProcs |-> <<>>]
    /\ results = [p \in CloudWatchProcs |-> NoResult]
    /\ started = [p \in CloudWatchProcs |-> <<>>]
    /\ refusals = [p \in CloudWatchProcs |-> 0]
    /\ dropped = [p \in CloudWatchProcs |-> {}]
    /\ blame_cache = [p \in CloudWatchProcs |-> <<>>]
    /\ blamed = [p \in CloudWatchProcs |-> NoBlame]
    /\ fetch_params = 0
    /\ fetched = NoFetch
    /\ user_cache = {}
    /\ calculated = NoOwnership

NextFetch == FetchGroups \/ FetchProjects

SpecFetch == InitFetch /\ [][NextFetch]_vars

\* ------------------------------------------------------- the Jira export
\* The rows of an export as the interface describes them: column 0 is the
\* story id, every other column is empty or a sprint label that holds digits.
JiraRows ==
    {<<id>> \o sprints :
        id \in {<<"7">>, <<"1", "2">>},
        sprints \in {<<>>, SubSeq(StoryRow, 2, Len(StoryRow)),
                     <<<<>>, <<"4", "a", "5">>>>}}

\* The exports: the header and up to MaxStories + 1 rows.
JiraExports ==
    {<<JiraHeader>> \o rows : rows \in UNION {[1 .. n -> JiraRows] : n \in 0 .. MaxStories + 1}}

\* The state of a run in which the producers `started_producers' and the writer
\* run (main.py:85-94), their tables were cleared and the writer has inserted
\* the documents `stored', which is all that was queued.
Started(started_producers, stored) ==
    /\ args = {SourceOf(started_producers[i]) : i \in DOMAIN started_producers}
    /\ mainPc = "visualize"
    /\ mainIdx = 1
    /\ producers = started_producers
    /\ procState = [p \in Procs |->
           IF \E i \in DOMAIN started_producers : started_producers[i] = p
              THEN "running" ELSE "none"]
    /\ consumer = "running"
    /\ database_queue = <<>>
    /\ tables = [l \in Labels |-> SelectSeq(stored, LAMBDA document : document.label = l)]
    /\ store_writer = IF stored = <<>>
                         THEN [by |-> MainProc, op |-> "truncate", started |-> FALSE]
                         ELSE [by |-> DatabaseProc, op |-> "insert", started |-> TRUE]
    /\ nput = [p \in Procs |-> Cardinality({i \in DOMAIN stored : stored[i].by = p})]
    /\ ninserted = [p \in Procs \cup {Stale} |->
           Cardinality({i \in DOMAIN stored : stored[i].by = p})]
    /\ sentinels = 0
    /\ idx = [p \in Procs |-> 0]
    /\ log_groups = [p \in CloudWatchProcs |-> <<>>]
    /\ queries = [p \in CloudWatchProcs |-> <<>>]
    /\ results = [p \in CloudWatchProcs |-> NoResult]
    /\ started = [p \in CloudWatchProcs |-> <<>>]
    /\ refusals = [p \in CloudWatchProcs |-> 0]
    /\ dropped = [p \in CloudWatchProcs |-> {}]
    /\ blame_cache = [p \in CloudWatchProcs |-> <<>>]
    /\ blamed = [p \in CloudWatchProcs |-> NoBlame]
    /\ fetch_params = 0
    /\ fetched = NoFetch
    /\ user_cache = {}
    /\ calculated = NoOwnership

\* A run of the Jira source over any of the exports.
InitJira ==
    /\ config = PipelineConfig(<<1>>)
    /\ service = PipelineService
    /\ gitlab = PipelineGitLab
    /\ jira_input \in JiraExports
    /\ pc = StartPc
    /\ Started(<<JiraProc>>, <<>>)

\* The producer alone: the writer has not yet taken a message.
NextJira == JiraExtract

SpecJira == InitJira /\ [][NextJira]_vars

\* ------------------------------------------------- the users of a project
\* The usernames of the platform and the username of the holder of a mail.
Usernames == {"alice", "bob", "carol"}
UsernameOf(mail) == IF mail = "alice@" THEN "alice" ELSE "bob"

\* The items of the API the loops of gitlab.py:99-133 read: a commit, a merge
\* request with the response to the request for its participants.
ProjectCommit(id, author_email) ==
    [id |-> id, author_email |-> author_email, changed_loc |-> 1]
MergeRequest(id, author, title, participants) ==
    [id |-> id, author |-> author, title |-> title, description |-> <<>>,
     participants |-> participants]

\* The participants of a merge request: up to MaxParticipants users in any
\* order, with repetitions, or a request that fails.
Participants ==
    {[ok |-> TRUE, users |-> users] :
        users \in UNION {[1 .. n -> Usernames] : n \in 0 .. MaxParticipants}}
    \cup {[ok |-> FALSE, users |-> <<>>]}

CommitLists ==
    {[i \in DOMAIN mails |-> ProjectCommit(i, mails[i])] :
        mails \in {<<>>, <<"alice@">>, <<"bob@">>, <<"alice@", "bob@">>,
                   <<"bob@", "alice@">>, <<"bob@", "bob@">>}}

\* No merge request, one by any user with any participants, or that and a
\* second by bob in which alice and bob took part.
MergeLists ==
    {<<>>}
    \cup {<<MergeRequest(1, author, <<>>, participants)>> \o second :
            author \in Usernames, participants \in Participants,
            second \in {<<>>, <<MergeRequest(2, "bob", <<>>,
                                   [ok |-> TRUE, users |-> <<"alice", "bob">>])>>}}

\* The documents of the parent group and of its projects (gitlab.py:78-81 and
\* 92-97), queued before the commits of the last project are read.
GroupAndProjects ==
    <<Doc(GitLabProc, 1, "group", 0, 0, None)>> \o
    [i \in 1 .. config.projects |-> Doc(GitLabProc, i + 1, "project", 0, 0, None)]

\* The GitLab producer begins to read the commits of the last project.
AtCommits == [StartPc EXCEPT ![GitLabProc] = "commits"]

\* A run of the GitLab source for any commits and merge requests of the last
\* project, whose group and projects the writer has stored.
InitProject ==
    /\ config = PipelineConfig(<<1>>)
    /\ service = PipelineService
    /\ jira_input = <<JiraHeader>>
    /\ \E bob \in {"bob", "IndexError", "GitLabError"} :
       \E project_commits \in CommitLists : \E merge_requests \in MergeLists :
          gitlab = [PipelineGitLab EXCEPT
                       !.search = [@ EXCEPT !["bob@"] = bob],
                       !.project_commits = project_commits,
                       !.merge_requests = merge_requests]
    /\ pc = AtCommits
    /\ Started(<<GitLabProc>>, GroupAndProjects)

NextProject == GitLabProject \/ GitLabExtract \/ listen

SpecProject == InitProject /\ [][NextProject]_vars

\* A run of the CloudWatch and GitLab sources: the last project has commits by
\* alice and bob and a merge request by alice in which carol, alice and bob
\* took part.
InitUsers ==
    /\ config = PipelineConfig(<<1>>)
    /\ service = PipelineService
    /\ jira_input = <<JiraHeader>>
    /\ \E bob \in {"bob", "IndexError", "GitLabError"} :
          gitlab = [PipelineGitLab EXCEPT
                       !.search = [@ EXCEPT !["bob@"] = bob],
                       !.project_commits =
                           <<ProjectCommit(1, "alice@"), ProjectCommit(2, "bob@")>>,
                       !.merge_requests =
                           <<MergeRequest(1, "alice", <<>>,
                                 [ok |-> TRUE, users |-> <<"carol", "alice", "bob">>])>>]
    /\ pc = AtCommits
    /\ Started(<<CloudWatchProc(1), GitLabProc>>, GroupAndProjects)

NextUsers ==
    \/ GitLabProject
    \/ GitLabExtract
    \/ \E p \in CloudWatchProcs : CloudWatch(p)
    \/ listen

SpecUsers == InitUsers /\ [][NextUsers]_vars

\* The story id of a merge request: the acronym of the configuration is PROJ or
\* STORY, the title is the acronym in upper or lower case, a separator or none
\* and a number, and the description is empty or " fix bug".
PROJ == <<"P", "R", "O", "J">>
Acronyms == {PROJ, STORY}
Separators == {<<>>, <<"-">>, <<" ">>, <<"_">>}
Numbers == {<<"0">>, <<"7">>, <<"4", "2">>, <<"9", "9", "9">>,
            <<"1", "0", "0", "0">>}
Descriptions == {<<>>, <<" ", "f", "i", "x", " ", "b", "u", "g">>}
LowerOf(s) == [i \in DOMAIN s |-> lower(s[i])]

InitStory ==
    /\ \E project_acronym \in Acronyms :
          config = [PipelineConfig(<<1>>) EXCEPT !.project_acronym = project_acronym]
    /\ service = PipelineService
    /\ jira_input = <<JiraHeader>>
    /\ \E key \in {config.project_acronym, LowerOf(config.project_acronym)} :
       \E separator \in Separators : \E number \in Numbers :
       \E description \in Descriptions :
          gitlab = [PipelineGitLab EXCEPT
                       !.project_commits = <<ProjectCommit(1, "alice@")>>,
                       !.merge_requests =
                           <<[MergeRequest(1, "alice", key \o separator \o number,
                                  [ok |-> TRUE, users |-> <<"bob">>])
                                 EXCEPT !.description = description]>>]
    /\ pc = AtCommits
    /\ Started(<<GitLabProc>>, GroupAndProjects)

NextStory == GitLabProject \/ GitLabExtract \/ listen

SpecStory == InitStory /\ [][NextStory]_vars

\* ----------------------------------------------------------- code ownership
\* calculation.py:11-13, ownership: the share as the fraction num / den.  A
\* total of zero raises ZeroDivisionError.
ownership(commits, locc, total_commits, total_locc) ==
    IF total_commits = 0 \/ total_locc = 0
       THEN [raised |-> "ZeroDivisionError", num |-> 0, den |-> 1]
       ELSE [raised |-> None,
             num |-> commits * total_locc + locc * total_commits,
             den |-> 2 * total_commits * total_locc]

\* The commits of `contributor' among `commits' and the lines they changed
\* (calculation.py:30-35); without a contributor, all commits (lines 24-25).
CommitsOf(commits, contributor) ==
    {i \in DOMAIN commits : contributor = None \/ commits[i].author_id = contributor}
Locc(commits, contributor) ==
    LET sum[i \in 0 .. Len(commits)] ==
            IF i = 0 THEN 0
            ELSE sum[i - 1] + IF i \in CommitsOf(commits, contributor)
                                 THEN commits[i].changed_loc ELSE 0
    IN  sum[Len(commits)]

\* calculation.py:21-48, calculate_ownership: 1.0 without commits, the share of
\* `author' if one is named (KeyError if the author has no commit), else the
\* largest share of a contributor.
calculate_ownership(commits, author) ==
    LET total_commits == Len(commits)
        total_locc == Locc(commits, None)
        contributors == {commits[i].author_id : i \in DOMAIN commits}
        share(c) == ownership(Cardinality(CommitsOf(commits, c)), Locc(commits, c),
                              total_commits, total_locc)
    IN  IF commits = <<>> THEN [raised |-> None, num |-> 1, den |-> 1]
        ELSE IF author # None
           THEN IF author \in contributors
                   THEN share(author)
                   ELSE [raised |-> "KeyError", num |-> 0, den |-> 1]
        ELSE IF total_locc = 0 THEN share(commits[1].author_id)
        ELSE share(CHOOSE c \in contributors : \A d \in contributors :
                       share(c).num * share(d).den >= share(d).num * share(c).den)

\* The contributors and the commit populations of the model: up to MaxCommits
\* commits, each changing up to MaxLoc lines.
Contributors == {hash_id("alice"), hash_id("bob")}
Populations ==
    UNION {[1 .. n -> [author_id : Contributors, changed_loc : 0 .. MaxLoc]] :
               n \in 0 .. MaxCommits}

\* A call of calculate_ownership on the commits a query returned
\* (calculation.py:17-19).
CalculateOwnership ==
    /\ \E commits \in Populations : \E author \in Contributors \cup {None} :
          \E share \in {calculate_ownership(commits, author)} :
              calculated' = [commits |-> commits, author |-> author,
                             raised |-> share.raised, num |-> share.num,
                             den |-> share.den]
    /\ UNCHANGED <<mainVars, procState, consumer, database_queue, tables, store_writer,
                   nput, ninserted, sentinels, pc, idx>>
    /\ UNCHANGED <<cwVars, constVars, gitlabVars>>

\* The analysis of a store no pipeline run is writing to.
InitOwnership ==
    /\ args = {}
    /\ config = PipelineConfig(<<1>>)
    /\ service = PipelineService
    /\ jira_input = <<JiraHeader>>
    /\ InitRest

NextOwnership == CalculateOwnership

SpecOwnership == InitOwnership /\ [][NextOwnership]_vars

\* ------------------------------------------------------------------ claims
Ended(p) == procState[p] \in {"exited", "failed"}
Failed(p) == pc[p] = "failed"

\* The orchestrator is between main.py:85 and main.py:100.
InRun == mainPc \in {"start", "consumer", "visualize", "join", "sentinel", "join_consumer"}

\* Every producer of the run has been started and has ended.
ProducersEnded ==
    /\ InRun
    /\ \A i \in 1 .. Len(producers) : Ended(producers[i])

Positions == UNION {{<<l, i>> : i \in 1 .. Len(tables[l])} : l \in Labels}
StoredAt(pos) == tables[pos[1]][pos[2]]

\* The places in the store of the k-th document producer p queued.
Occurrences(p, k) ==
    {pos \in Positions : StoredAt(pos).by = p /\ StoredAt(pos).n = k}

\* Every document queued so far is stored once, under its label, and nothing
\* else was added to the store.
EveryPutStoredOnce ==
    /\ \A p \in Procs : \A k \in 1 .. nput[p] :
          /\ Cardinality(Occurrences(p, k)) = 1
          /\ \A pos \in Occurrences(p, k) : StoredAt(pos).label = pos[1]
    /\ \A pos \in Positions :
          StoredAt(pos).by # Stale => StoredAt(pos).n \in 1 .. nput[StoredAt(pos).by]

IsPrefix(s, t) == Len(s) <= Len(t) /\ SubSeq(t, 1, Len(s)) = s

\* C1: when the writer has terminated, every document any producer put on the
\* queue is in the table of its label exactly once.
C1_WrittenExactlyOnce == consumer = "exited" => EveryPutStoredOnce

\* Two producers queued documents and the writer has stored them and ended.
C1_Witness ==
    /\ consumer = "exited"
    /\ nput[JiraProc] >= 1
    /\ nput[GitLabProc] >= 2
    /\ Len(tables["project"]) >= 1

\* C2: the sentinel is put at most once, only when every producer has ended,
\* and no document is ever queued behind it.
C2_SentinelLast ==
    /\ [](/\ sentinels <= 1
          /\ sentinels = 1 => \A p \in Procs : procState[p] \in {"none", "exited", "failed"}
          /\ \A i \in 1 .. Len(database_queue) :
                IsSentinel(database_queue[i]) => i = Len(database_queue))
    /\ [][sentinels >= 1 => nput' = nput]_vars

\* The sentinel is on the queue behind documents the writer has not yet taken.
C2_Witness ==
    /\ sentinels = 1
    /\ Len(database_queue) >= 3
    /\ IsSentinel(database_queue[Len(database_queue)])

\* C3: once a producer or the writer has been started, every mutation of the
\* store is an insert by the writer process.
C3_SingleWriter ==
    /\ [](store_writer.started =>
             store_writer.by = DatabaseProc /\ store_writer.op = "insert")
    /\ [][RunStarted /\ tables' # tables =>
             consumer = "running" /\ store_writer'.by = DatabaseProc]_vars

\* The writer has inserted documents of two producers into a store the
\* orchestrator had truncated.
C3_Witness ==
    /\ store_writer = [by |-> DatabaseProc, op |-> "insert", started |-> TRUE]
    /\ Len(tables["story"]) = 1 /\ tables["story"][1].by = JiraProc
    /\ Len(tables["group"]) = 1 /\ tables["group"][1].by = GitLabProc

\* C4: every truncate precedes the start of the first process: once a process
\* has been started the orchestrator is past main.py:58-83, the tables of the
\* requested sources hold no document of an earlier run, and tables only grow.
C4_TruncateBeforeStart ==
    /\ [](RunStarted =>
            /\ mainPc \notin {"begin", "cloudwatch", "gitlab", "jira"}
            /\ \A s \in args : \A l \in SOURCE_MAP[s] :
                  \A i \in 1 .. Len(tables[l]) : tables[l][i].by # Stale)
    /\ [][RunStarted => \A l \in Labels : IsPrefix(tables[l], tables'[l])]_vars

\* A table that held a document of an earlier run now holds one of this run,
\* while an unrequested source keeps its old documents.
C4_Witness ==
    /\ RunStarted
    /\ tables["user"] = <<StaleDoc("user")>>
    /\ Len(tables["story"]) = 1 /\ tables["story"][1].by = JiraProc

\* C5: the queue keeps each producer's documents in the order of its puts, and
\* each insert stores the document at the head of the queue, which is the next
\* one of its producer.
C5_ProducerOrder ==
    /\ [](\A i, j \in 1 .. Len(database_queue) :
            (/\ i < j
             /\ ~IsSentinel(database_queue[i])
             /\ ~IsSentinel(database_queue[j])
             /\ database_queue[i].doc.by = database_queue[j].doc.by)
            => database_queue[i].doc.n < database_queue[j].doc.n)
    /\ [][tables' # tables /\ RunStarted =>
            LET m == Head(database_queue)
            IN  /\ tables' = [tables EXCEPT ![m.label] = Append(@, m.doc)]
                /\ m.doc.n = ninserted[m.doc.by] + 1
                /\ m.doc.n <= nput[m.doc.by]]_vars

\* Documents of two producers interleave on the queue.
C5_Witness ==
    \E i, j, k \in 1 .. Len(database_queue) :
        /\ i < j /\ j < k
        /\ ~IsSentinel(database_queue[k])
        /\ database_queue[i].doc.by = database_queue[k].doc.by
        /\ database_queue[j].doc.by # database_queue[i].doc.by

\* C6: once every producer has ended, the sentinel is eventually put and the
\* writer eventually terminates; the writer leaves its loop only on taking the
\* sentinel and inserts nothing afterwards.
C6_WriterTerminates ==
    /\ ProducersEnded ~> (sentinels = 1 /\ consumer = "exited" /\ mainPc = "done")
    /\ [][consumer = "running" /\ consumer' = "exited" =>
            IsSentinel(Head(database_queue))]_vars
    /\ [][consumer = "exited" => tables' = tables /\ consumer' = "exited"]_vars

\* The run is over with one producer having failed and another having returned.
C6_Witness ==
    /\ mainPc = "done"
    /\ consumer = "exited"
    /\ \E p, q \in Procs : procState[p] = "failed" /\ procState[q] = "exited"

\* C7: an unexpected remote failure of a CloudWatch producer stops that producer
\* alone: the step changes no other process, and afterwards the GitLab and Jira
\* producers end and, unless another CloudWatch producer keeps running, the run
\* completes with every queued document stored, those of the failed producer
\* included.
C7_FailureIsolated ==
    /\ [][\A p \in CloudWatchProcs :
            Failed(p)' /\ ~Failed(p) =>
                /\ \A q \in Procs \ {p} : procState'[q] = procState[q] /\ pc'[q] = pc[q]
                /\ procState'[p] = "failed"
                /\ UNCHANGED <<database_queue, tables, consumer, mainPc, nput>>]_vars
    /\ (\E p \in CloudWatchProcs : Failed(p)) ~>
           /\ \A q \in {GitLabProc, JiraProc} : ~is_alive(q)
           /\ \/ \E q \in CloudWatchProcs : is_alive(q)
              \/ mainPc = "done" /\ consumer = "exited" /\ EveryPutStoredOnce

\* A CloudWatch producer failed after queuing documents, its siblings returned,
\* and the run is over with the documents of all of them stored.
C7_Witness ==
    \E p \in CloudWatchProcs :
        /\ Failed(p)
        /\ nput[p] >= 2
        /\ procState[GitLabProc] = "exited"
        /\ procState[JiraProc] = "exited"
        /\ mainPc = "done"
        /\ Len(tables["loggroup"]) = 1
        /\ Len(tables["story"]) = 1

\* C8 as stated: when the run is over, the tables of the source of a failed
\* producer are empty.
C8_FailedSourceEmpty ==
    mainPc = "done" =>
        \A i \in 1 .. Len(producers) :
            Failed(producers[i]) =>
                \A l \in SOURCE_MAP[SourceOf(producers[i])] : tables[l] = <<>>

\* C8 amended: when the run is over, the tables of the source of a failed
\* producer hold no document of an earlier run: they hold documents queued in
\* this run by producers of that source, among them, once each, all that the
\* failed producer queued before it failed.
C8_FailedSourceNotStale ==
    mainPc = "done" =>
        \A i \in 1 .. Len(producers) :
            LET p == producers[i]
            IN  Failed(p) =>
                  /\ \A l \in SOURCE_MAP[SourceOf(p)] : \A j \in 1 .. Len(tables[l]) :
                        /\ tables[l][j].by \in Procs
                        /\ SourceOf(tables[l][j].by) = SourceOf(p)
                  /\ \A k \in 1 .. nput[p] :
                        /\ Cardinality(Occurrences(p, k)) = 1
                        /\ \A pos \in Occurrences(p, k) : pos[1] \in SOURCE_MAP[SourceOf(p)]

\* The run over a store of an earlier run is done; a producer failed after
\* queuing a document, which its source's table holds.
C8_Witness ==
    /\ mainPc = "done"
    /\ tables["story"] = <<StaleDoc("story")>>
    /\ Failed(GitLabProc)
    /\ Len(tables["group"]) = 1 /\ tables["group"][1].by = GitLabProc

\* The queries of account p that are in flight.
InFlight(p) == {queries[p][i].val : i \in 1 .. Len(queries[p])}

\* C9: the results of a started query are handled at most once; a query whose
\* results were handled leaves the in-flight dict at the end of that pass; a
\* query not yet handled is in flight; and a log group has at most one
\* unhandled query.
C9_HandledOnce ==
    \A p \in CloudWatchProcs :
        /\ \A q \in 1 .. Len(started[p]) :
              /\ started[p][q].handled <= 1
              /\ started[p][q].handled = 0 => q \in InFlight(p)
              /\ (started[p][q].handled = 1 /\ q \in InFlight(p)) =>
                    pc[p] \in {"handle", "failed"} /\ results[p].lg = started[p][q].lg
        /\ \A i, j \in 1 .. Len(queries[p]) :
              queries[p][i].key = queries[p][j].key => i = j
        /\ \A q1, q2 \in 1 .. Len(started[p]) :
              (/\ started[p][q1].lg = started[p][q2].lg
               /\ started[p][q1].handled = 0
               /\ started[p][q2].handled = 0) => q1 = q2

\* A handled query has left the in-flight dict while a later query of the same
\* log group is in flight.
C9_Witness ==
    \E p \in CloudWatchProcs : \E q1, q2 \in 1 .. Len(started[p]) :
        /\ q1 < q2
        /\ started[p][q1].lg = started[p][q2].lg
        /\ started[p][q1].handled = 1
        /\ q1 \notin InFlight(p)
        /\ q2 \in InFlight(p)

\* C10: the loop is left only at the end of a cycle, and there it is left if
\* and only if no log group is pending and no query is in flight.
C10_ExitIffEmpty ==
    /\ [](\A p \in CloudWatchProcs :
            pc[p] = "done" => log_groups[p] = <<>> /\ queries[p] = <<>>)
    /\ [][\A p \in CloudWatchProcs :
            /\ pc'[p] = "done" /\ pc[p] # "done" => pc[p] = "check"
            /\ pc[p] = "check" /\ pc'[p] # "check" =>
                  /\ pc'[p] = "done" <=> (log_groups[p] = <<>> /\ queries[p] = <<>>)
                  /\ pc'[p] # "done" => pc'[p] = "submit" /\ procState'[p] = "running"]_vars

\* The loop was left after a second cycle had re-submitted a log group.
C10_Witness ==
    \E p \in CloudWatchProcs :
        /\ pc[p] = "done"
        /\ Len(started[p]) >= 3
        /\ nput[p] >= 4

\* The messages a step puts on the queue.
NewPuts ==
    IF Len(database_queue') > Len(database_queue)
       THEN {database_queue'[Len(database_queue')]}
       ELSE {}

\* C11: a LIMIT_REACHED answer to a submission ends the submissions of the cycle
\* (the producer goes on to poll, and no query is started outside the submit
\* loop), starts no query and leaves the pending dict as it was; the refused log
\* group stays first in the pending dict with its window until it is submitted
\* again, which happens in a later cycle unless the producer fails first; no
\* count of refusals ends the retries.
C11_LimitReachedRetried ==
    /\ [][\A p \in CloudWatchProcs :
            /\ refusals'[p] > refusals[p] =>
                  /\ pc[p] = "submit" /\ pc'[p] = "poll"
                  /\ log_groups[p] # <<>>
                  /\ log_groups'[p] = log_groups[p]
                  /\ UNCHANGED <<queries, started, database_queue>>
            /\ pc[p] # "submit" => Len(started'[p]) = Len(started[p])
            /\ refusals[p] > 0 /\ refusals'[p] > 0 =>
                  /\ log_groups'[p] # <<>>
                  /\ Head(log_groups'[p]) = Head(log_groups[p])]_vars
    /\ \A p \in CloudWatchProcs :
          (refusals[p] > 0 /\ pc[p] = "poll") ~>
              (Failed(p) \/ (pc[p] = "submit" /\ refusals[p] > 0))

\* A log group is about to be submitted again after MaxRefusals refusals in a
\* row.
C11_Witness ==
    \E p \in CloudWatchProcs :
        /\ pc[p] = "submit"
        /\ refusals[p] = MaxRefusals
        /\ Len(log_groups[p]) >= 1

\* C12: a NOT_FOUND answer to a submission removes the log group from the
\* pending dict, starts no query and lets the submit loop go on with the other
\* pending log groups, which keep their windows; from then on the log group is
\* neither pending nor in flight, no query is started for it and no ErrorLog of
\* it is queued.
C12_NotFoundDropped ==
    /\ [](\A p \in CloudWatchProcs : \A lg \in dropped[p] :
            /\ ~DictHas(log_groups[p], lg)
            /\ ~DictHas(queries[p], lg)
            /\ (\A q \in 1 .. Len(started[p]) : started[p][q].lg # lg) =>
                  \A i \in 1 .. Len(database_queue) :
                      ~(/\ database_queue[i].label = "errorlog"
                        /\ database_queue[i].doc.by = p
                        /\ database_queue[i].doc.lg = lg))
    /\ [][\A p \in CloudWatchProcs :
            /\ dropped'[p] # dropped[p] =>
                  /\ log_groups[p] # <<>>
                  /\ dropped'[p] = dropped[p] \cup {log_groups[p][1].key}
                  /\ log_groups'[p] = Tail(log_groups[p])
                  /\ pc[p] = "submit" /\ pc'[p] = "submit" /\ procState'[p] = "running"
                  /\ UNCHANGED <<queries, started, database_queue>>
            /\ \A lg \in dropped[p] :
                  /\ \A q \in 1 .. Len(started'[p]) :
                        started'[p][q].lg = lg => q <= Len(started[p])
                  /\ \A m \in NewPuts :
                        ~(m.label = "errorlog" /\ m.doc.by = p /\ m.doc.lg = lg)]_vars

\* The producer returned after it dropped log group 1 without a query and
\* queued an ErrorLog of log group 2.
C12_Witness ==
    \E p \in CloudWatchProcs :
        /\ pc[p] = "done"
        /\ dropped[p] = {1}
        /\ \A q \in 1 .. Len(started[p]) : started[p][q].lg # 1
        /\ \E i \in 1 .. Len(database_queue) :
              /\ database_queue[i].label = "errorlog"
              /\ database_queue[i].doc.lg = 2

\* C13: a poll answered Scheduled, Running or Throttled leaves the in-flight
\* dict, the pending dict, the queries and the queue as they were and goes on to
\* the next in-flight query; a query leaves the in-flight dict, and result
\* handling begins, only through a Complete answer.
C13_PollChangesNothing ==
    [][\A p \in CloudWatchProcs :
          /\ (is_alive(p) /\ pc[p] = "poll" /\ idx[p] > 0) =>
                \A res \in get_query_results(p, queries[p][idx[p]].val) :
                    (res.status \in {IN_PROGRESS, THROTTLED} /\ CWPollAnswer(p, res)) =>
                        /\ queries'[p] = queries[p]
                        /\ log_groups'[p] = log_groups[p]
                        /\ started'[p] = started[p]
                        /\ database_queue' = database_queue
                        /\ pc'[p] = "poll" /\ idx'[p] = idx[p] - 1
          /\ (pc[p] # "handle" /\ pc'[p] = "handle") =>
                /\ pc[p] = "poll" /\ idx[p] > 0
                /\ results'[p].lg = queries[p][idx[p]].key
                /\ started'[p][queries[p][idx[p]].val].handled = 1
                /\ [status |-> "Complete", rows |-> results'[p].rows]
                       \in get_query_results(p, queries[p][idx[p]].val)
          /\ queries'[p] # queries[p] =>
                \/ pc[p] \in {"query_logs", "submit"}
                \/ /\ pc[p] = "handle"
                   /\ queries'[p] = DictPop(queries[p], results[p].lg)]_vars

\* A poll of this cycle left its query in flight.
C13_Witness ==
    \E p \in CloudWatchProcs :
        /\ pc[p] = "poll"
        /\ idx[p] < Len(queries[p])

\* C14: at the end of the pass over a completed query whose result set reached
\* the cap, the log group is pending again from the second of the last row to
\* the end of the query that completed, which is the configured end; below the
\* cap the pending dict is left as it was and does not hold the log group.
C14_SlidingWindow ==
    [][\A p \in CloudWatchProcs :
          (pc[p] = "handle" /\ pc'[p] = "poll") =>
              LET rows == results[p].rows
                  log_group == results[p].lg
                  query == started[p][DictGet(queries[p], log_group)]
              IN  IF Len(rows) >= QUERY_LIMIT
                     THEN /\ DictHas(log_groups'[p], log_group)
                          /\ DictGet(log_groups'[p], log_group) =
                                 [start |-> rows[Len(rows)].t \div TicksPerSecond,
                                  end |-> query.end]
                          /\ query.end = config.limit_timestamp
                     ELSE /\ log_groups'[p] = log_groups[p]
                          /\ ~DictHas(log_groups'[p], log_group)]_vars

\* A query is in flight for a window that begins at the last row of a result
\* set at the cap, later than the configured start.
C14_Witness ==
    \E p \in CloudWatchProcs : \E q \in 1 .. Len(started[p]) :
        /\ started[p][q].start > config.start_timestamp
        /\ started[p][q].end = config.limit_timestamp
        /\ started[p][q].handled = 0

\* The ErrorLogs of log group lg and second s that producer p has queued.
QueuedErrorLogs(p, lg, s) ==
    Cardinality({i \in 1 .. Len(database_queue) :
        /\ database_queue[i].label = "errorlog"
        /\ database_queue[i].doc.by = p
        /\ database_queue[i].doc.lg = lg
        /\ database_queue[i].doc.ts = s})

\* The rows of second s that the log service holds for log group lg inside
\* the configured window.
ServiceRows(lg, s) ==
    Cardinality({i \in 1 .. Len(service[lg]) :
        /\ service[lg][i].t \div TicksPerSecond = s
        /\ config.start_timestamp * TicksPerSecond <= service[lg][i].t
        /\ service[lg][i].t <= config.limit_timestamp * TicksPerSecond})

\* C15: of the rows the log service holds for a log group in the window, none is
\* queued twice, and when the producer returns each has been queued.
C15_EachRowOnce ==
    \A p \in CloudWatchProcs : \A i \in 1 .. Len(config.log_groups) :
        \A s \in config.start_timestamp .. config.limit_timestamp :
            LET lg == config.log_groups[i]
            IN  /\ QueuedErrorLogs(p, lg, s) <= ServiceRows(lg, s)
                /\ (pc[p] = "done" /\ lg \notin dropped[p]) =>
                       QueuedErrorLogs(p, lg, s) = ServiceRows(lg, s)

\* The ErrorLog documents on the queue and in the store.
ErrorLogs ==
    {database_queue[i].doc : i \in
        {j \in 1 .. Len(database_queue) : database_queue[j].label = "errorlog"}}
    \cup {tables["errorlog"][i] : i \in 1 .. Len(tables["errorlog"])}

\* C16: no ErrorLog on the queue or in the store has a message field and each
\* has an author field; the author of an ErrorLog that is queued is what
\* GitLab.blame returns for its row at that moment; and an ErrorLog that is on
\* the queue or in the store stays there as it is.
C16_ErrorLogQueued ==
    /\ [](\A d \in ErrorLogs : "message" \notin DOMAIN d /\ "author" \in DOMAIN d)
    /\ [][/\ \A m \in NewPuts : m.label = "errorlog" =>
                LET p == m.doc.by
                    result == results[p].rows[results[p].j]
                    log == transform_query_result(result, results[p].lg)
                IN  /\ pc[p] = "handle"
                    /\ m.doc.author = blame(blame_cache[p], log, results[p].lg).author
                    /\ m.doc.ts = log.ts /\ m.doc.lg = log.lg
          /\ RunStarted => \A d \in ErrorLogs : d \in ErrorLogs'
          /\ \A d \in ErrorLogs : \A e \in ErrorLogs' :
                (d.by = e.by /\ d.n = e.n) => d = e]_vars

\* The ErrorLog of a row whose message names a line blamed on alice is in the
\* store with her hashed id.
C16_Witness ==
    \E i \in 1 .. Len(tables["errorlog"]) :
        /\ tables["errorlog"][i].by \in CloudWatchProcs
        /\ tables["errorlog"][i].author = hash_id("alice")

\* A step in which producer p handles one row of a result set.
HandlesRow(p) ==
    /\ is_alive(p)
    /\ pc[p] = "handle"
    /\ results[p].j <= Len(results[p].rows)
    /\ (pc'[p] # pc[p] \/ results'[p] # results[p])

\* C17: whenever GitLab.blame resolves no author for a row, whether no line
\* matches or the retrieval fails, the row's ErrorLog is queued with no author
\* and the producer goes on to the next row.
C17_MissIsNotAnError ==
    [][\A p \in CloudWatchProcs :
          (HandlesRow(p) /\ blamed'[p].author = None) =>
              /\ pc'[p] = "handle"
              /\ results'[p].j = results[p].j + 1
              /\ \E m \in NewPuts :
                    /\ m.label = "errorlog"
                    /\ m.doc.by = p
                    /\ m.doc.author = None]_vars

\* The hashed committers of the blamed lines that equal, after trimming, the
\* statement of a candidate of `message': the lines of the file's blame as of
\* the most recent commit at or before second ts, as a fresh walk of its pages
\* yields them, whose committer is identified.
Sightings(message, ts) ==
    LET last_commit == fetch_most_recent_commit(1, timestamp_to_zulustr(ts))
        candidates == get_error_info(message)
    IN  IF last_commit.raised # None
           THEN {}
           ELSE UNION {
                  LET items == fetch_all(BlameUri(candidates[c].file, last_commit.id), 0).items
                  IN  {hash_id(get_user_identifiers(items[i].author_email).id) :
                         i \in {k \in 1 .. Len(items) :
                                 /\ \E l \in 1 .. Len(items[k].lines) :
                                       strip(items[k].lines[l]) = candidates[c].statement
                                 /\ get_user_identifiers(items[k].author_email).raised
                                       = None}} :
                  c \in 1 .. Len(candidates)}

\* C18: the last call of blame returned the hashed committer of a matching line
\* if some candidate has one, and returned no author only if none has.
C18_BlameFindsAuthor ==
    \A p \in CloudWatchProcs :
        LET sightings == Sightings(blamed[p].message, blamed[p].ts)
        IN  /\ sightings # {} =>
                  blamed[p].raised = None /\ blamed[p].author \in sightings
            /\ (blamed[p].raised = None /\ sightings = {}) => blamed[p].author = None

\* The items of the pages that the requests from the i-th on ask for.
RECURSIVE PageItems(_, _, _)
PageItems(uri, requests, i) ==
    IF i > Len(requests)
       THEN <<>>
       ELSE Response(uri, requests[i]).items \o PageItems(uri, requests, i + 1)

\* C19: the last fetch asked first for the page its parameters name (the first
\* page if they name none), asked for each following page with the cursor of
\* the response before, and ended at the first response without a cursor (or at
\* a request that failed); it yielded the items of the pages it got, page by
\* page in that order.
C19_PagesInOrder ==
    LET requests == fetched.requests
        n == Len(requests)
    IN  n > 0 =>
            /\ requests[1] = fetched.before
            /\ fetched.before = 0 => Response(fetched.uri, requests[1]) =
                                         gitlab.pages[fetched.uri][1]
            /\ \A i \in 1 .. n - 1 :
                  /\ Response(fetched.uri, requests[i]).ok
                  /\ Response(fetched.uri, requests[i]).next # 0
                  /\ requests[i + 1] = Response(fetched.uri, requests[i]).next
            /\ fetched.raised = ~Response(fetched.uri, requests[n]).ok
            /\ ~fetched.raised => Response(fetched.uri, requests[n]).next = 0
            /\ fetched.items = PageItems(fetched.uri,
                                         IF fetched.raised
                                            THEN SubSeq(requests, 1, n - 1)
                                            ELSE requests, 1)

\* A fetch followed a cursor from the first page past the second to the last
\* page and yielded the items of both pages.
C19_Witness ==
    /\ fetched.requests = <<0, MaxPages>>
    /\ ~fetched.raised
    /\ fetched.items = <<<<1, 1>>, <<MaxPages, 1>>>>

\* C20: every fetch starts from the first page and yields the full sequence of
\* its listing, whatever fetches were made before.
C20_Restartable ==
    fetched.requests # <<>> =>
        /\ fetched.requests[1] = 0
        /\ fetched.items = fetch_all(fetched.uri, 0).items
        /\ fetched.raised = fetch_all(fetched.uri, 0).raised

\* The step of the orchestrator that clears the tables of source s
\* (main.py:64, 72, 79).
ClearStep(s) == mainPc = s /\ Requested(s) /\ mainPc' # mainPc

\* C26: every table label belongs to exactly one source, and clearing a source
\* empties exactly the tables of that source and leaves every other table as
\* it was.
C26_ClearExactly ==
    /\ \A l \in Labels : Cardinality({s \in Sources : l \in SOURCE_MAP[s]}) = 1
    /\ [][\A s \in Sources :
             ClearStep(s) =>
                 \A l \in Labels :
                     tables'[l] = IF l \in SOURCE_MAP[s] THEN <<>> ELSE tables[l]]_vars

\* The orchestrator cleared the GitLab tables of a store that an earlier run
\* had filled: they are empty, the tables of the other sources still hold the
\* documents of the earlier run.
C26_Witness ==
    /\ mainPc = "jira"
    /\ args = {GITLAB}
    /\ store_writer = Mutation(MainProc, "truncate")
    /\ \A l \in SOURCE_MAP[GITLAB] : tables[l] = <<>>
    /\ \A l \in Labels \ SOURCE_MAP[GITLAB] : tables[l] = <<StaleDoc(l)>>

\* C29: the window of every re-submission begins strictly later than the window
\* of the query whose capped result set it follows, so that the windows of a
\* log group move forward and the loop over any finite set of rows ends.
C29_ResubmissionLater ==
    [][\A p \in CloudWatchProcs :
          (/\ pc[p] = "handle" /\ pc'[p] = "poll"
           /\ DictHas(log_groups'[p], results[p].lg)) =>
              DictGet(log_groups'[p], results[p].lg).start >
                  started[p][DictGet(queries[p], results[p].lg)].start]_vars

\* C30: a call of blame for an error record with the log group, the timestamp
\* and the message of the call before it in the same process returns the author
\* that call returned.
C30_MemoizedBlameSame ==
    [][\A p \in CloudWatchProcs :
          (/\ HandlesRow(p)
           /\ blamed[p] # NoBlame
           /\ blamed'[p].lg = blamed[p].lg
           /\ blamed'[p].ts = blamed[p].ts
           /\ blamed'[p].message = blamed[p].message) =>
              blamed'[p].author = blamed[p].author]_vars

\* The numbers that a sprint label embeds: the values of its maximal runs of
\* digits.
EmbeddedNumbers(label) ==
    {decimal(SubSeq(label, i, j)) : <<i, j>> \in
        {r \in (DOMAIN label) \X (DOMAIN label) :
            /\ r[1] <= r[2]
            /\ \A k \in r[1] .. r[2] : IsDigit(label[k])
            /\ r[1] = 1 \/ ~IsDigit(label[r[1] - 1])
            /\ r[2] = Len(label) \/ ~IsDigit(label[r[2] + 1])}}

\* The non-empty columns of a row after column 0, in the order of the row.
SprintColumns(row) == SelectSeq(Tail(row), LAMBDA column : column # <<>>)

\* C27: the Jira producer queues nothing for the header row and, for the rows
\* after it that it has read, one Story each in file order: its id is the number
\* in column 0 and its sprints are one number for each non-empty column after
\* column 0, in the order of the columns, each embedded in its column.  The
\* producer fails only when the file cannot be opened, and returns only after
\* every row is queued.
C27_OneStoryPerRow ==
    LET p == JiraProc
        rows == Tail(jira_input)
    IN  /\ Len(database_queue) = nput[p]
        /\ nput[p] = IF idx[p] = 0 THEN 0 ELSE idx[p] - 1
        /\ idx[p] <= Len(jira_input)
        /\ pc[p] = "done" => nput[p] = Len(rows)
        /\ Failed(p) => idx[p] = 0
        /\ \A k \in 1 .. nput[p] :
              LET story == database_queue[k]
                  columns == SprintColumns(rows[k])
              IN  /\ story.label = "story"
                  /\ story.doc.id = decimal(rows[k][1])
                  /\ Len(story.doc.sprints) = Len(columns)
                  /\ \A c \in DOMAIN columns :
                        story.doc.sprints[c] \in EmbeddedNumbers(columns[c])

\* The producer has returned from an export of two rows: the story 7 with the
\* sprints 12 and 4, of which the empty column between them gives none, then
\* the story 12 without sprints.
C27_Witness ==
    /\ pc[JiraProc] = "done"
    /\ jira_input = <<JiraHeader, StoryRow, <<<<"1", "2">>>>>>
    /\ Len(database_queue) = 2
    /\ database_queue[1].doc.id = 7
    /\ database_queue[1].doc.sprints = <<12, 4>>
    /\ database_queue[2].doc.id = 12
    /\ database_queue[2].doc.sprints = <<>>

\* C28: for a population of at least one commit and an author with a commit in
\* it, calculate_ownership returns a share between 0 and 1, and the share is
\* at least that of every author of the population who has neither more
\* commits nor more changed lines.
C28_ShareBounded ==
    LET commits == calculated.commits
        author == calculated.author
        authors == {commits[i].author_id : i \in DOMAIN commits}
    IN  (commits # <<>> /\ author \in authors) =>
            /\ calculated.raised = None
            /\ 0 <= calculated.num /\ calculated.num <= calculated.den
            /\ \A other \in authors :
                  (/\ Cardinality(CommitsOf(commits, other))
                          <= Cardinality(CommitsOf(commits, author))
                   /\ Locc(commits, other) <= Locc(commits, author)) =>
                      LET share == calculate_ownership(commits, other)
                      IN  /\ share.raised = None
                          /\ share.num * calculated.den <= calculated.num * share.den

\* The documents on the queue and in the store.
AllDocuments ==
    {database_queue[i].doc : i \in {j \in DOMAIN database_queue :
                                        ~IsSentinel(database_queue[j])}}
    \cup UNION {{tables[l][i] : i \in DOMAIN tables[l]} : l \in Labels}

\* The user identities a document carries.
IdentitiesOf(document) ==
    CASE document.label = "user" -> {document.id}
      [] document.label = "commit" -> {document.author_id}
      [] document.label = "merge" ->
             {document.author_id} \cup
             {document.contributor_ids[i] : i \in DOMAIN document.contributor_ids}
      [] document.label = "errorlog" -> {document.author} \ {None}
      [] OTHER -> {}

HashedUsernames == {hash_id(username) : username \in Usernames}

\* C21: every user identity of a document on the queue or in the store (the id
\* of a User, the author of a Commit, the author and the contributors of a
\* Merge, the author of an ErrorLog that has one) is the hash of a username of
\* the platform, and is neither a username nor a mail address.
C21_OnlyHashedIdentities ==
    \A document \in AllDocuments : \A identity \in IdentitiesOf(document) :
        /\ identity \in HashedUsernames
        /\ identity \notin Usernames \cup Mails

\* The queue or the store hold a User, a Commit of bob, the Merge of alice
\* with two contributors and an ErrorLog blamed on alice.
C21_Witness ==
    /\ \E document \in AllDocuments : document.label = "user"
    /\ \E document \in AllDocuments :
          document.label = "commit" /\ document.author_id = hash_id("bob")
    /\ \E document \in AllDocuments :
          /\ document.label = "merge"
          /\ document.author_id = hash_id("alice")
          /\ document.contributor_ids = <<hash_id("carol"), hash_id("bob")>>
    /\ \E document \in AllDocuments :
          document.label = "errorlog" /\ document.author = hash_id("alice")

C25_AuthorNoContributor ==
    \A document \in AllDocuments :
        document.label = "merge" =>
            \A i \in DOMAIN document.contributor_ids :
                document.contributor_ids[i] # document.author_id

\* A Merge whose author is first among its participants, before another user
\* who is its only contributor.
C25_Witness ==
    \E document \in AllDocuments :
        /\ document.label = "merge"
        /\ gitlab.merge_requests[document.id].participants.users =
               <<gitlab.merge_requests[document.id].author, "carol">>
        /\ gitlab.merge_requests[document.id].author # "carol"
        /\ document.contributor_ids = <<hash_id("carol")>>

\* The Merge documents on the queue and in the store with their merge requests.
MergeDocuments == {document \in AllDocuments : document.label = "merge"}
TextOf(document) ==
    gitlab.merge_requests[document.id].title \o
    gitlab.merge_requests[document.id].description

\* C23: a merge request whose title plus description begins with the
\* configured acronym, a separator or none and a number from 1 to 999 that a
\* character other than a digit or nothing follows, "PROJ-42 fix bug" for the
\* acronym PROJ among them, gets that number as its story id.
C23_AcronymRecognised ==
    \A document \in MergeDocuments :
        \A separator \in Separators : \A number \in Numbers :
        \A description \in Descriptions :
            (/\ TextOf(document) =
                    config.project_acronym \o separator \o number \o description
             /\ decimal(number) \in 1 .. 999)
                => document.story_id = SomeInt(decimal(number))

\* C24: the story id of a Merge is unset or below 1000; the number the pattern
\* matched is the story id when it is below 1000, and there is no story id
\* when it is 1000 or more.
C24_BelowThousandKept ==
    \A document \in MergeDocuments :
        /\ document.story_id.is_none \/ document.story_id.value < 1000
        /\ LET story_result == story_search(config.project_acronym, TextOf(document))
           IN  story_result.found =>
                   IF decimal(story_result.group2) < 1000
                      THEN document.story_id = SomeInt(decimal(story_result.group2))
                      ELSE document.story_id = NoInt

\* The ids of the User documents in the store and on the queue, in the order
\* of their insertion and of their put.
UserIds ==
    LET stored == tables["user"]
        queued == SelectSeq(database_queue,
                      LAMBDA m : ~IsSentinel(m) /\ m.label = "user")
    IN  [i \in DOMAIN stored |-> stored[i].id] \o
        [i \in DOMAIN queued |-> queued[i].doc.id]

\* C31: no two User documents in the store or on the queue have the same id,
\* however many commits and merge requests of the project refer to the user.
C31_UserQueuedOnce ==
    \A i \in DOMAIN UserIds : \A j \in DOMAIN UserIds :
        UserIds[i] = UserIds[j] => i = j

\* The run has ended with two Commits of bob and a Merge to which bob
\* contributed in the store, and with one User of bob's id.
C31_Witness ==
    /\ procState[GitLabProc] = "exited"
    /\ database_queue = <<>>
    /\ Len(SelectSeq(tables["commit"],
                     LAMBDA document : document.author_id = hash_id("bob"))) = 2
    /\ \E i \in DOMAIN tables["merge"] :
          \E j \in DOMAIN tables["merge"][i].contributor_ids :
              tables["merge"][i].contributor_ids[j] = hash_id("bob")
    /\ \E i \in DOMAIN UserIds : UserIds[i] = hash_id("bob")

\* A User document with the id `id' was put by the producer of `document'
\* before it and is in the store.  The writer inserts the documents of a
\* producer in the order of their puts (database.py:42-52), so that the earlier
\* put is the earlier insertion.
UserInsertedBefore(id, document) ==
    \E i \in DOMAIN tables["user"] :
        /\ tables["user"][i].id = id
        /\ tables["user"][i].by = document.by
        /\ tables["user"][i].n < document.n

\* C32: for every Commit in the store a User of its author_id was inserted
\* before it, and for every Merge in the store a User of its author_id and of
\* each of its contributor_ids was inserted before it.
C32_UsersInsertedFirst ==
    /\ \A i \in DOMAIN tables["commit"] :
          UserInsertedBefore(tables["commit"][i].author_id, tables["commit"][i])
    /\ \A i \in DOMAIN tables["merge"] :
          /\ UserInsertedBefore(tables["merge"][i].author_id, tables["merge"][i])
          /\ \A j \in DOMAIN tables["merge"][i].contributor_ids :
                UserInsertedBefore(tables["merge"][i].contributor_ids[j],
                                   tables["merge"][i])

\* C33: every document on the queue was put by a producer of a requested
\* source under a label of that source, only the producers of requested sources
\* are created, and no step changes a table of a source that was not
\* requested.
C33_UnrequestedUntouched ==
    /\ [](\A i \in DOMAIN database_queue :
             ~IsSentinel(database_queue[i]) =>
                 /\ SourceOf(database_queue[i].doc.by) \in args
                 /\ database_queue[i].label \in
                        SOURCE_MAP[SourceOf(database_queue[i].doc.by)])
    /\ [](\A p \in Procs : procState[p] # "none" => SourceOf(p) \in args)
    /\ [][\A s \in Sources \ args : \A l \in SOURCE_MAP[s] :
             tables'[l] = tables[l]]_vars

\* A run of the Jira source alone over the store of an earlier run is done: the
\* story table holds a Story of this run and every other table still holds the
\* document of the earlier run.
C33_Witness ==
    /\ mainPc = "done"
    /\ args = {JIRA}
    /\ tables["story"] # <<>>
    /\ \A i \in DOMAIN tables["story"] : tables["story"][i].by = JiraProc
    /\ \A l \in Labels \ SOURCE_MAP[JIRA] : tables[l] = <<StaleDoc(l)>>

====
